---------------------------- MODULE Spec2Model ----------------------------
(***************************************************************************)
(* Model of the EC2 audit / instance-refresh Lambda functions.             *)
(*                                                                         *)
(* The audit handler (ec2AuditMonitor/AuditDStatusMonitorFunction2/app.py) *)
(* is modelled as a sequential process: one action per backend call (EC2,  *)
(* Lambda, Secrets Manager, SSH, CloudWatch Logs, DynamoDB), followed by   *)
(* the local computation that runs up to the next backend call.  Every     *)
(* backend call may fail; Python's try / except / finally routing of the   *)
(* failure is part of the action.  The backend (security groups, the       *)
(* instance's group membership, the audit table) is shared state.          *)
(***************************************************************************)
EXTENDS Integers, Sequences, FiniteSets, TLC

\* ---------------------------------------------------------------- bounds
\* Number of handler invocations in one behaviour.
MaxInvocations == 2
\* The wall clock behind the record timestamp takes the values 0..MaxClock.
MaxClock == 1
\* Number of polls of one refresh by the status poller.
MaxPolls == 47
\* Number of services in the deployment file the batch splitter reads.
MaxServices == 12
\* Number of instances the account holds when the discovery handler runs.
MaxInstances == 2
\* Number of target groups of the ASG the refresh starter is given, and of
\* registered targets of one target group.
MaxGroups == 2
MaxTargets == 2

\* ------------------------------------------------------------- constants
None == "None"

\* event['instance_id'], event['instance_name'] of the one audited target.
InstanceId == "i-1"
InstanceName == "web"
\* event['key_pair_name'] when the instance has a key pair.
KeyPairName == "kp-1"

\* The instance's security groups before any invocation.
InitialSgs == <<"sg-a", "sg-b">>
\* response['VpcConfig']['SecurityGroupIds'] of the Lambda, when it is in a VPC.
LambdaSecurityGroupIds == <<"sg-lambda", "sg-lambda-2">>
\* GroupIds EC2 hands out for the groups created, in order of creation.
GroupIdPool == <<"sg-t1", "sg-t2", "sg-t3", "sg-t4", "sg-t5", "sg-t6">>

\* The invocations (Procs) and the one the sequential specification runs.
Procs == {1, 2}

InstanceStates == {"running", "stopped", "pending"}

usernames == <<"ubuntu", "ec2-user">>
services == <<"amazon-cloudwatch-agent", "auditd">>

VARIABLES
    security_groups,  \* EC2: GroupId of each existing Temp-SSH-<id> group -> its ingress rules
    instance_sgs,     \* EC2: the target instance's security groups, in order
    table,            \* DynamoDB: the audit items, one per (InstanceId, Timestamp), that
                      \* a put can still replace
    clock,            \* the wall clock, in seconds
    next_gid,         \* EC2: how many group ids were handed out
    invocations,      \* how many invocations were started
    frame,            \* per invocation: the handler's locals and position
    log_check,        \* the log-freshness check on its own: input and result
    monitor,          \* refresh status poller: the event, the locals and the position
    monitor_table,    \* DynamoDB: the monitor item of the ASG, if any
    splitter,         \* batch splitter: the environment, the S3 object and the result
    discovery,        \* discovery handler: the account's instances and the result
    starter           \* refresh starter: the ASG it is given, its locals and its result

vars == <<security_groups, instance_sgs, table, clock, next_gid, invocations, frame, log_check,
          monitor, monitor_table, splitter, discovery, starter>>

\* The variables of the audit handler, and those of everything else.
audit == <<security_groups, instance_sgs, table, clock, next_gid, invocations, frame>>
elsewhere == <<log_check, monitor, monitor_table, splitter, discovery, starter>>

\* The variables of the refresh status poller.
poller == <<monitor, monitor_table>>

backend == <<security_groups, instance_sgs, table, next_gid>>

\* ------------------------------------------------------------ exceptions
\* An exception's message: its format, and the values formatted into it.
Err(kind, arg, sub) == [kind |-> kind, arg |-> arg, sub |-> sub]
NoErr == Err("", "", "")

\* ----------------------------------------------------------- audit items
NoStreaming == [kind |-> "absent", hh |-> 0, mm |-> 0, prefix |-> <<>>]
Health(kind, state, reason) == [kind |-> kind, state |-> state, reason |-> reason]
NoItem == [InstanceId |-> None, Timestamp |-> 0, InstanceName |-> None,
           CloudWatchAgentStatus |-> None, AuditdStatus |-> None,
           AuditStreaming |-> NoStreaming, OverallHealth |-> Health("", "", NoErr)]

\* str.upper() on the instance states.
Upper(s) ==
    CASE s = "running" -> "RUNNING"
      [] s = "stopped" -> "STOPPED"
      [] s = "pending" -> "PENDING"
      [] OTHER -> s

\* Mutant: the state is written as EC2 reports it, not in upper case.
SkippedItemAsReported(ts, current_state) ==
    [NoItem EXCEPT !.InstanceId = InstanceId, !.Timestamp = ts, !.InstanceName = InstanceName,
                   !.OverallHealth = Health("SKIPPED", current_state, NoErr)]

\* The item of the pre-flight skip.
SkippedItem(ts, current_state) ==
    [NoItem EXCEPT !.InstanceId = InstanceId, !.Timestamp = ts, !.InstanceName = InstanceName,
                   !.OverallHealth = Health("SKIPPED", Upper(current_state), NoErr)]

\* Mutant: the FAILED record gets a timestamp of its own, taken when it is written.
FailedItemLaterKey(ts, inner_err) ==
    [NoItem EXCEPT !.InstanceId = InstanceId, !.Timestamp = ts + 1, !.InstanceName = InstanceName,
                   !.OverallHealth = Health("FAILED", "", inner_err)]

\* The item of the inner except.
FailedItem(ts, inner_err) ==
    [NoItem EXCEPT !.InstanceId = InstanceId, !.Timestamp = ts, !.InstanceName = InstanceName,
                   !.OverallHealth = Health("FAILED", "", inner_err)]

\* table.put_item: an item replaces the item of the same key, if any.
PutItemInto(t, item) ==
    {i \in t : ~(i.InstanceId = item.InstanceId /\ i.Timestamp = item.Timestamp)} \cup {item}

\* ------------------------------------------------------- handler results
NoResult == [kind |-> "none", tag |-> "", err |-> NoErr, item |-> NoItem]
Return(tag, err, item) == [kind |-> "return", tag |-> tag, err |-> err, item |-> item]
Raise(err) == [kind |-> "raise", tag |-> "", err |-> err, item |-> NoItem]

\* ---------------------------------------------------------------- frames
NoLastError == NoErr
NoStatuses == [s \in {} |-> ""]

IdleFrame ==
    [pc |-> "idle",
     key_pair_name |-> None,
     timestamp |-> 0,
     lambda_sg_id |-> None,
     temp_sg_id |-> None,
     current_state |-> None,
     original_sg_ids |-> <<>>,
     tried |-> <<>>,
     connected |-> FALSE,
     last_error |-> NoLastError,
     session |-> "none",
     service_statuses |-> NoStatuses,
     exit_status |-> <<>>,
     audit_streaming |-> NoStreaming,
     inner_err |-> NoErr,
     result |-> NoResult,
     calls |-> <<>>]

\* The frame of p with the fields of r replaced, and the call logged with its
\* outcome: "ok", or the error it raised.
Upd(p, call, outcome, r) ==
    frame' = [frame EXCEPT ![p] =
                 [calls |-> Append(@.calls, [call |-> call, outcome |-> outcome])] @@ r @@ @]

\* Mutant: the handler ends without its finally clause.
AfterTryNoFinally(temp_sg_id) == "done"

\* Where control goes when the outer try block is left (by return or raise):
\* the finally clause runs its cleanup only when temp_sg_id is set.
AfterTry(temp_sg_id) == IF temp_sg_id # None THEN "cleanup_detach" ELSE "done"

NoLogCheck == [pc |-> "idle", current_time_ms |-> 0,
               response |-> [kind |-> "none", last_event |-> 0 - 1],
               audit_streaming |-> NoStreaming]

\* The poller before its first poll: no event yet, no status, no result.
NoPoll == [pc |-> "idle", check_count |-> 0, max_checks |-> <<>>,
           instance_refresh_status |-> "", result |-> [kind |-> "none", status |-> ""]]

Init ==
    /\ security_groups = [g \in {} |-> {}]
    /\ instance_sgs = InitialSgs
    /\ table = {}
    /\ clock = 0
    /\ next_gid = 0
    /\ invocations = 0
    /\ frame = [p \in Procs |-> IdleFrame]
    /\ log_check = NoLogCheck
    /\ monitor = NoPoll
    /\ monitor_table = <<>>
    /\ splitter = [pc |-> "idle"]
    /\ discovery = [pc |-> "idle"]
    /\ starter = [pc |-> "idle"]

\* The items of t that a put_item can still replace once p has started at
\* time now: those of this second, and those of the second in which an
\* invocation still running started.  The items of earlier seconds stay in
\* DynamoDB as they are for good, and the model stops tracking them.
Replaceable(t, p, now) ==
    {i \in t : \/ i.Timestamp = now
               \/ \E q \in Procs \ {p} : /\ frame[q].pc \notin {"idle", "done"}
                                          /\ frame[q].timestamp = i.Timestamp}

\* lambda_handler is entered, at some time not before the last time observed:
\* the event is read and the timestamp taken (to the second).
Invoke(p) ==
    /\ frame[p].pc \in {"idle", "done"}
    /\ invocations < MaxInvocations
    /\ invocations' = invocations + 1
    /\ \E valid \in BOOLEAN, kp \in {KeyPairName, None}, now \in clock..MaxClock :
       /\ clock' = now
       /\ table' = Replaceable(table, p, now)
       /\ frame' = [frame EXCEPT ![p] =
              IF valid
              THEN [IdleFrame EXCEPT !.pc = "get_function_configuration",
                                     !.key_pair_name = kp,
                                     !.timestamp = now]
              ELSE [IdleFrame EXCEPT !.pc = "done",
                                     !.key_pair_name = kp,
                                     !.result = Raise(Err("Input missing instance_id or instance_ip", "", ""))]]
    /\ UNCHANGED <<security_groups, instance_sgs, next_gid, elsewhere>>

\* lambda_client.get_function_configuration, outside every try block.
GetFunctionConfiguration(p) ==
    /\ frame[p].pc = "get_function_configuration"
    /\ \/ \E ids \in {LambdaSecurityGroupIds, <<LambdaSecurityGroupIds[1]>>} :
             Upd(p, "get_function_configuration", "ok",
                 [pc |-> "describe_instances", lambda_sg_id |-> ids[1]])
       \/ \* no VpcConfig, or an empty SecurityGroupIds: KeyError / IndexError
          Upd(p, "get_function_configuration", "error",
              [pc |-> "done",
               result |-> Raise(Err("Lambda must be in a VPC to perform this task.", "", ""))])
       \/ \* any other error of the call is not caught
          Upd(p, "get_function_configuration", "error",
              [pc |-> "done", result |-> Raise(Err("ClientError", "get_function_configuration", ""))])
    /\ UNCHANGED <<backend, clock, invocations, elsewhere>>

\* ------------------------------------------------------------ EC2 backend
Range(seq) == {seq[i] : i \in DOMAIN seq}

\* A group id names a group: the instance's own groups always exist.
GroupExists(g) == g \in Range(InitialSgs) \/ g \in DOMAIN security_groups

\* The existing group named Temp-SSH-<instance_id> (group names are unique in a VPC).
GroupNamed == CHOOSE g \in DOMAIN security_groups : TRUE

\* Mutant: the port is opened to every address instead of to the Lambda's group.
IpPermissionsAnywhere(lambda_sg_id) ==
    [IpProtocol |-> "tcp", FromPort |-> 22, ToPort |-> 22,
     UserIdGroupPairs |-> {}, IpRanges |-> {"0.0.0.0/0"}]

\* The one permission the handler authorizes.
IpPermissions(lambda_sg_id) ==
    [IpProtocol |-> "tcp", FromPort |-> 22, ToPort |-> 22,
     UserIdGroupPairs |-> {lambda_sg_id}, IpRanges |-> {}]

\* Mutant: the outer except records the failure and returns it instead of raising.
RaiseOuterSwallowed(p, call, err) ==
    Upd(p, call, "error",
        [pc |-> AfterTry(frame[p].temp_sg_id), result |-> Return("SKIPPED", err, NoItem)])

\* A failure inside the outer try and outside the protected block: the outer
\* except logs and re-raises, then the finally clause runs.
RaiseOuter(p, call, err) ==
    Upd(p, call, "error", [pc |-> AfterTry(frame[p].temp_sg_id), result |-> Raise(err)])

\* Mutant: there is no inner try, the failure goes to the outer except.
RaiseInnerUncaught(p, call, outcome, err) ==
    Upd(p, call, outcome, [pc |-> AfterTry(frame[p].temp_sg_id), result |-> Raise(err)])

\* A failure inside the protected block: the inner except takes it.
RaiseInner(p, call, outcome, err) ==
    Upd(p, call, outcome, [pc |-> "put_item_failed", inner_err |-> err])

\* ec2.describe_instances and the pre-flight branch.
DescribeInstances(p) ==
    /\ frame[p].pc = "describe_instances"
    /\ \/ \E st \in InstanceStates :
             IF st # "running"
             THEN Upd(p, "describe_instances", "ok", [pc |-> "put_item_skipped", current_state |-> st])
             ELSE Upd(p, "describe_instances", "ok",
                      [pc |-> "create_security_group", current_state |-> st,
                       original_sg_ids |-> instance_sgs])
       \/ RaiseOuter(p, "describe_instances", Err("ClientError", "describe_instances", ""))
    /\ UNCHANGED <<backend, clock, invocations, elsewhere>>

\* table.put_item of the SKIPPED record, and the return.
PutItemSkipped(p) ==
    /\ frame[p].pc = "put_item_skipped"
    /\ \/ /\ table' = PutItemInto(table, SkippedItem(frame[p].timestamp, frame[p].current_state))
          /\ Upd(p, "put_item_skipped", "ok",
                 [pc |-> AfterTry(frame[p].temp_sg_id),
                  result |-> Return("Instance not running", NoErr, NoItem)])
       \/ /\ RaiseOuter(p, "put_item_skipped", Err("ClientError", "put_item", ""))
          /\ UNCHANGED table
    /\ UNCHANGED <<security_groups, instance_sgs, next_gid, clock, invocations, elsewhere>>

\* Mutant: a Duplicate is re-raised like any other ClientError.
CreateFailedNoReuse(p, code) ==
    Upd(p, "create_security_group", code,
        [pc |-> AfterTry(frame[p].temp_sg_id), result |-> Raise(Err("ClientError", code, ""))])

\* The except clause of the creation: on InvalidGroup.Duplicate the existing
\* group is looked up, any other ClientError is re-raised.
CreateFailed(p, code) ==
    IF code = "InvalidGroup.Duplicate"
    THEN Upd(p, "create_security_group", code, [pc |-> "describe_security_groups"])
    ELSE Upd(p, "create_security_group", code,
             [pc |-> AfterTry(frame[p].temp_sg_id),
              result |-> Raise(Err("ClientError", code, ""))])

\* ec2.create_security_group(GroupName = Temp-SSH-<instance_id>).
CreateSecurityGroup(p) ==
    /\ frame[p].pc = "create_security_group"
    /\ \/ /\ DOMAIN security_groups = {}
          /\ next_gid < Len(GroupIdPool)
          /\ next_gid' = next_gid + 1
          /\ security_groups' = [g \in {GroupIdPool[next_gid + 1]} |-> {}]
          /\ Upd(p, "create_security_group", "ok",
                 [pc |-> "authorize_security_group_ingress",
                  temp_sg_id |-> GroupIdPool[next_gid + 1]])
       \/ \* a group of that name exists
          /\ DOMAIN security_groups # {}
          /\ CreateFailed(p, "InvalidGroup.Duplicate")
          /\ UNCHANGED <<security_groups, next_gid>>
       \/ \* any other ClientError
          /\ CreateFailed(p, "UnauthorizedOperation")
          /\ UNCHANGED <<security_groups, next_gid>>
    /\ UNCHANGED <<instance_sgs, table, clock, invocations, elsewhere>>

\* ec2.describe_security_groups by group name, in the Duplicate handler.
DescribeSecurityGroups(p) ==
    /\ frame[p].pc = "describe_security_groups"
    /\ \/ /\ DOMAIN security_groups # {}
          /\ Upd(p, "describe_security_groups", "ok",
                 [pc |-> "authorize_security_group_ingress", temp_sg_id |-> GroupNamed])
       \/ \* the group is gone by now: existing['SecurityGroups'][0] is an IndexError
          /\ DOMAIN security_groups = {}
          /\ RaiseOuter(p, "describe_security_groups", Err("IndexError", "", ""))
       \/ RaiseOuter(p, "describe_security_groups", Err("ClientError", "describe_security_groups", ""))
    /\ UNCHANGED <<backend, clock, invocations, elsewhere>>

\* EC2 adds a rule to a group that exists and does not hold the rule yet
\* (InvalidGroup.NotFound, InvalidPermission.Duplicate otherwise).
CanAuthorize(g, rule) == g \in DOMAIN security_groups /\ rule \notin security_groups[g]

\* EC2 sets an instance's groups when every group named exists.
CanModify(groups) == \A g \in Range(groups) : GroupExists(g)

\* EC2 deletes a group that exists and that no instance uses
\* (InvalidGroup.NotFound, DependencyViolation otherwise).
CanDelete(g) == g \in DOMAIN security_groups /\ g \notin Range(instance_sgs)

\* ec2.authorize_security_group_ingress on the temporary group.
AuthorizeSecurityGroupIngress(p) ==
    /\ frame[p].pc = "authorize_security_group_ingress"
    /\ \/ /\ CanAuthorize(frame[p].temp_sg_id, IpPermissions(frame[p].lambda_sg_id))
          /\ security_groups' = [security_groups EXCEPT ![frame[p].temp_sg_id] =
                                     @ \cup {IpPermissions(frame[p].lambda_sg_id)}]
          /\ Upd(p, "authorize_security_group_ingress", "ok", [pc |-> "attach"])
       \/ /\ RaiseOuter(p, "authorize_security_group_ingress",
                        Err("ClientError", "authorize_security_group_ingress", ""))
          /\ UNCHANGED security_groups
    /\ UNCHANGED <<instance_sgs, table, next_gid, clock, invocations, elsewhere>>

\* Mutant: the temporary group replaces the instance's groups.
AttachGroupsReplacing(original_sg_ids, temp_sg_id) == <<temp_sg_id>>

\* Groups = original_sg_ids + [temp_sg_id]
AttachGroups(original_sg_ids, temp_sg_id) == Append(original_sg_ids, temp_sg_id)

\* ec2.modify_instance_attribute(Groups = original_sg_ids + [temp_sg_id]), the
\* settle delay, and the first statement of the protected block.
Attach(p) ==
    /\ frame[p].pc = "attach"
    /\ LET groups == AttachGroups(frame[p].original_sg_ids, frame[p].temp_sg_id) IN
       \/ /\ CanModify(groups)
          /\ instance_sgs' = groups
          /\ IF frame[p].key_pair_name = None
             THEN RaiseInner(p, "attach", "ok", Err("No KeyPair associated with this instance", "", ""))
             ELSE Upd(p, "attach", "ok", [pc |-> "get_secret_value"])
       \/ /\ RaiseOuter(p, "attach", Err("ClientError", "modify_instance_attribute", ""))
          /\ UNCHANGED instance_sgs
    /\ UNCHANGED <<security_groups, table, next_gid, clock, invocations, elsewhere>>

\* ------------------------------------------------------- protected block
\* The exception the handler raises for a ClientError of get_secret_value.
SecretError(err_code, key_pair_name) ==
    CASE err_code = "ResourceNotFoundException" ->
            Err("Secret missing in Secrets Manager", key_pair_name, "")
      [] err_code = "AccessDeniedException" ->
            Err("Lambda IAM role denied access to secret", key_pair_name, "")
      [] OTHER -> Err("SecretsManager Error", err_code, "")

SecretErrorCodes == {"ResourceNotFoundException", "AccessDeniedException", "InternalServiceError"}

\* s_client.get_secret_value with the mapping of its ClientError, then
\* paramiko.RSAKey.from_private_key.
GetSecretValue(p) ==
    /\ frame[p].pc = "get_secret_value"
    /\ \/ Upd(p, "get_secret_value", "ok", [pc |-> "connect"])
       \/ \* the secret is no RSA private key: from_private_key raises
          RaiseInner(p, "get_secret_value", "SSHException",
                     Err("SSHException", "not a valid RSA private key file", ""))
       \/ \E err_code \in SecretErrorCodes :
             RaiseInner(p, "get_secret_value", err_code, SecretError(err_code, frame[p].key_pair_name))
    /\ UNCHANGED <<backend, clock, invocations, elsewhere>>

\* Mutant: the list is walked from its end.
NextUserReversed(tried) == usernames[Len(usernames) - Len(tried)]

\* The user the loop tries after the users in tried.
NextUser(tried) == usernames[Len(tried) + 1]

\* last_error after a failed attempt.
AuthFailed(user) == Err("Auth failed for", user, "")
ConnectErrors == {Err("timed out", "", "")}

\* raise Exception(f"Could not connect with any known username. Last error: {last_error}")
NoConnect(last_error) ==
    Err("Could not connect with any known username. Last error", last_error.kind, last_error.arg)

\* A failed attempt: the loop continues with the next user; after the last
\* user, connected is still False and the handler raises.
ConnectFailed(p, now_tried, outcome, last_error) ==
    Upd(p, "connect", outcome,
        [tried |-> now_tried,
         last_error |-> last_error,
         pc |-> IF Len(now_tried) < Len(usernames) THEN "connect" ELSE "put_item_failed",
         inner_err |-> IF Len(now_tried) < Len(usernames) THEN NoErr ELSE NoConnect(last_error)])

\* One iteration of the username loop: ssh_client.connect as the next user;
\* after the last user has failed, the raise that follows the loop.
Connect(p) ==
    /\ frame[p].pc = "connect"
    /\ LET user == NextUser(frame[p].tried)
           now_tried == Append(frame[p].tried, user)
       IN \/ Upd(p, "connect", "ok",
                 [pc |-> "exec_command", tried |-> now_tried, connected |-> TRUE, session |-> "open"])
          \/ \* paramiko.AuthenticationException
             ConnectFailed(p, now_tried, "AuthenticationException", AuthFailed(user))
          \/ \* any other exception
             \E e \in ConnectErrors : ConnectFailed(p, now_tried, "Exception", e)
    /\ UNCHANGED <<backend, clock, invocations, elsewhere>>

\* ----------------------------------------------------------------- probes
ExitStatuses == {0, 3, 4}

\* The status recorded for an exit status of systemctl is-active.
ServiceStatus(exit_status) == IF exit_status = 0 THEN "active" ELSE "inactive"

\* The service the probe loop is at.
NextService(service_statuses) == services[Cardinality(DOMAIN service_statuses) + 1]

\* One iteration of the probe loop: ssh_client.exec_command and recv_exit_status.
\* exit_status is kept while the loop runs (nothing reads it afterwards).
ExecCommand(p) ==
    /\ frame[p].pc = "exec_command"
    /\ LET service == NextService(frame[p].service_statuses) IN
       \/ \E exit_status \in ExitStatuses :
             LET statuses == frame[p].service_statuses @@ (service :> ServiceStatus(exit_status)) IN
             Upd(p, "exec_command", "ok",
                 [service_statuses |-> statuses,
                  exit_status |-> <<exit_status>>,
                  pc |-> IF Cardinality(DOMAIN statuses) < Len(services)
                         THEN "exec_command" ELSE "close"])
       \/ \* the command cannot be run: SSHException
          RaiseInner(p, "exec_command", "error", Err("SSHException", "exec_command", ""))
    /\ UNCHANGED <<backend, clock, invocations, elsewhere>>

\* ssh_client.close()
Close(p) ==
    /\ frame[p].pc = "close"
    /\ Upd(p, "close", "ok", [pc |-> "describe_log_streams", session |-> "closed", exit_status |-> <<>>])
    /\ UNCHANGED <<backend, clock, invocations, elsewhere>>

\* ------------------------------------------------------ log verification
\* Milliseconds.
Hour == 60 * 60 * 1000
ten_hours_ms == 10 * 60 * 60 * 1000

\* The stream has no lastEventTimestamp.
NoTimestamp == 0 - 1

\* `if last_event:` holds for a timestamp that is present and not 0.
Truthy(last_event) == last_event # NoTimestamp /\ last_event # 0

\* strftime('%H:%M') of utcfromtimestamp(last_event / 1000) + 5h30.
StaleHour(last_event) == (((last_event \div 1000) + 19800) \div 3600) % 24
StaleMinute(last_event) == (((last_event \div 1000) + 19800) \div 60) % 60

Streaming(kind) == [NoStreaming EXCEPT !.kind = kind]

\* Mutant: an event exactly ten hours old still counts as fresh.
AuditStreamingOfInclusive(response, current_time_ms) ==
    CASE response.kind = "error" -> Streaming("ERROR")
      [] response.kind = "none" ->
            [Streaming("NO_NOT_FOUND") EXCEPT !.prefix = <<InstanceName, InstanceId>>]
      [] OTHER ->
            IF Truthy(response.last_event)
            THEN IF (current_time_ms - response.last_event) <= ten_hours_ms
                 THEN Streaming("YES")
                 ELSE [Streaming("STALE") EXCEPT !.hh = StaleHour(response.last_event),
                                                 !.mm = StaleMinute(response.last_event)]
            ELSE Streaming("NO_EMPTY")

\* Mutant: the except clause of the lookup leaves audit_streaming as it was.
AuditStreamingOfNoError(response, current_time_ms) ==
    CASE response.kind = "error" -> Streaming("NO")
      [] response.kind = "none" ->
            [Streaming("NO_NOT_FOUND") EXCEPT !.prefix = <<InstanceName, InstanceId>>]
      [] OTHER ->
            IF Truthy(response.last_event)
            THEN IF (current_time_ms - response.last_event) < ten_hours_ms
                 THEN Streaming("YES")
                 ELSE [Streaming("STALE") EXCEPT !.hh = StaleHour(response.last_event),
                                                 !.mm = StaleMinute(response.last_event)]
            ELSE Streaming("NO_EMPTY")

\* The streaming state for the response of describe_log_streams: the call
\* raised ("error"), returned no stream ("none"), or returned a stream.
AuditStreamingOf(response, current_time_ms) ==
    CASE response.kind = "error" -> Streaming("ERROR")
      [] response.kind = "none" ->
            [Streaming("NO_NOT_FOUND") EXCEPT !.prefix = <<InstanceName, InstanceId>>]
      [] OTHER ->
            IF Truthy(response.last_event)
            THEN IF (current_time_ms - response.last_event) < ten_hours_ms
                 THEN Streaming("YES")
                 ELSE [Streaming("STALE") EXCEPT !.hh = StaleHour(response.last_event),
                                                 !.mm = StaleMinute(response.last_event)]
            ELSE Streaming("NO_EMPTY")

\* int(time.time() * 1000) at the log lookup.
CurrentTimes == {48 * Hour}

\* lastEventTimestamp of the stream found: recent or old.
LastEvents(now) == {now - 9 * Hour, now - 11 * Hour}

LogResponses(now) ==
    {[kind |-> "error", last_event |-> NoTimestamp], [kind |-> "none", last_event |-> NoTimestamp]}
    \cup {[kind |-> "stream", last_event |-> t] : t \in LastEvents(now)}

\* logs_client.describe_log_streams inside its own try block.
DescribeLogStreams(p) ==
    /\ frame[p].pc = "describe_log_streams"
    /\ \E now \in CurrentTimes : \E response \in LogResponses(now) :
          Upd(p, "describe_log_streams", IF response.kind = "error" THEN "error" ELSE "ok",
              [pc |-> "put_item", audit_streaming |-> AuditStreamingOf(response, now)])
    /\ UNCHANGED <<backend, clock, invocations, elsewhere>>

\* -------------------------------------------------------- record writes
\* dict.get
Get(d, key) == IF key \in DOMAIN d THEN d[key] ELSE None

\* Mutant: one healthy part is enough.
OverallHealthOfAny(service_statuses, audit_streaming) ==
    IF (\E s \in DOMAIN service_statuses : service_statuses[s] = "active")
       \/ audit_streaming = Streaming("YES")
    THEN "HEALTHY" ELSE "UNHEALTHY"

\* The OverallHealth of the success record.
OverallHealthOf(service_statuses, audit_streaming) ==
    IF (\A s \in DOMAIN service_statuses : service_statuses[s] = "active")
       /\ audit_streaming = Streaming("YES")
    THEN "HEALTHY" ELSE "UNHEALTHY"

\* Mutant: the streaming state is left out of the record.
SuccessItemNoStreaming(ts, service_statuses, audit_streaming) ==
    [InstanceId |-> InstanceId, Timestamp |-> ts, InstanceName |-> InstanceName,
     CloudWatchAgentStatus |-> Get(service_statuses, "amazon-cloudwatch-agent"),
     AuditdStatus |-> Get(service_statuses, "auditd"),
     AuditStreaming |-> NoStreaming,
     OverallHealth |-> Health(OverallHealthOf(service_statuses, audit_streaming), "", NoErr)]

\* The item of the success path.
SuccessItem(ts, service_statuses, audit_streaming) ==
    [InstanceId |-> InstanceId, Timestamp |-> ts, InstanceName |-> InstanceName,
     CloudWatchAgentStatus |-> Get(service_statuses, "amazon-cloudwatch-agent"),
     AuditdStatus |-> Get(service_statuses, "auditd"),
     AuditStreaming |-> audit_streaming,
     OverallHealth |-> Health(OverallHealthOf(service_statuses, audit_streaming), "", NoErr)]

\* table.put_item of the success record, and the return.
PutItem(p) ==
    /\ frame[p].pc = "put_item"
    /\ LET item == SuccessItem(frame[p].timestamp, frame[p].service_statuses,
                               frame[p].audit_streaming) IN
       \/ /\ table' = PutItemInto(table, item)
          /\ Upd(p, "put_item", "ok",
                 [pc |-> AfterTry(frame[p].temp_sg_id), result |-> Return("data", NoErr, item)])
       \/ /\ RaiseInner(p, "put_item", "error", Err("ClientError", "put_item", ""))
          /\ UNCHANGED table
    /\ UNCHANGED <<security_groups, instance_sgs, next_gid, clock, invocations, elsewhere>>

\* The inner except: table.put_item of the FAILED record, and the return.
PutItemFailed(p) ==
    /\ frame[p].pc = "put_item_failed"
    /\ \/ /\ table' = PutItemInto(table, FailedItem(frame[p].timestamp, frame[p].inner_err))
          /\ Upd(p, "put_item_failed", "ok",
                 [pc |-> AfterTry(frame[p].temp_sg_id),
                  result |-> Return("SKIPPED", frame[p].inner_err, NoItem)])
       \/ /\ RaiseOuter(p, "put_item_failed", Err("ClientError", "put_item", ""))
          /\ UNCHANGED table
    /\ UNCHANGED <<security_groups, instance_sgs, next_gid, clock, invocations, elsewhere>>

\* ---------------------------------------------------------------- finally
\* Mutant: the cleanup leaves the instance with its first group only.
RestoreGroupsFirstOnly(original_sg_ids) == SubSeq(original_sg_ids, 1, 1)

\* Groups = original_sg_ids
RestoreGroups(original_sg_ids) == original_sg_ids

\* Mutant: the error of a cleanup call is raised to the caller.
CleanupFailedRaises(p, call) ==
    Upd(p, call, "error", [pc |-> "done", result |-> Raise(Err("ClientError", call, ""))])

\* The except clause of the cleanup: the error is logged, the rest of the
\* cleanup is skipped, and the handler ends as it was going to.
CleanupFailed(p, call) == Upd(p, call, "error", [pc |-> "done"])

\* ec2.modify_instance_attribute(Groups = original_sg_ids).
CleanupDetach(p) ==
    /\ frame[p].pc = "cleanup_detach"
    /\ LET groups == RestoreGroups(frame[p].original_sg_ids) IN
       \/ /\ CanModify(groups)
          /\ instance_sgs' = groups
          /\ Upd(p, "detach", "ok", [pc |-> "cleanup_delete"])
       \/ /\ CleanupFailed(p, "detach")
          /\ UNCHANGED instance_sgs
    /\ UNCHANGED <<security_groups, table, next_gid, clock, invocations, elsewhere>>

\* ec2.delete_security_group(GroupId = temp_sg_id).
CleanupDelete(p) ==
    /\ frame[p].pc = "cleanup_delete"
    /\ \/ /\ CanDelete(frame[p].temp_sg_id)
          /\ security_groups' = [g \in DOMAIN security_groups \ {frame[p].temp_sg_id} |->
                                    security_groups[g]]
          /\ Upd(p, "delete_security_group", "ok", [pc |-> "done"])
       \/ /\ CleanupFailed(p, "delete_security_group")
          /\ UNCHANGED security_groups
    /\ UNCHANGED <<instance_sgs, table, next_gid, clock, invocations, elsewhere>>

\* ------------------------------------------------------- specifications
\* One step of invocation p of the audit handler.
Handler(p) ==
    \/ Invoke(p)
    \/ GetFunctionConfiguration(p)
    \/ DescribeInstances(p)
    \/ PutItemSkipped(p)
    \/ CreateSecurityGroup(p)
    \/ DescribeSecurityGroups(p)
    \/ AuthorizeSecurityGroupIngress(p)
    \/ Attach(p)
    \/ GetSecretValue(p)
    \/ Connect(p)
    \/ ExecCommand(p)
    \/ Close(p)
    \/ DescribeLogStreams(p)
    \/ PutItem(p)
    \/ PutItemFailed(p)
    \/ CleanupDetach(p)
    \/ CleanupDelete(p)

\* Invocations of the handler one after the other, as the Step Function's
\* map state runs them for one target.
Next == Handler(1)

Spec == Init /\ [][Next]_vars

\* ------------------------------------------------ concurrent invocations
\* A frame of an audit in which nothing is wrong with the event or the
\* target: the event is complete, the instance is running and has a key pair,
\* ubuntu can log in, the probes exit 0 and the log stream is fresh.
Steady(f) ==
    /\ f.result # Raise(Err("Input missing instance_id or instance_ip", "", ""))
    /\ f.pc # "idle" => f.key_pair_name = KeyPairName
    /\ f.current_state \in {None, "running"}
    /\ f.exit_status \in {<<>>, <<0>>}
    /\ f.audit_streaming.kind \in {"absent", "YES"}

\* EC2 had to refuse the call p made in this step: its precondition did not hold.
Refused(p, call, outcome) ==
    CASE call = "create_security_group" -> outcome = "InvalidGroup.Duplicate"
      [] call = "describe_security_groups" ->
            DOMAIN security_groups = {} /\ frame'[p].result.err.kind = "IndexError"
      [] call = "authorize_security_group_ingress" ->
            ~CanAuthorize(frame[p].temp_sg_id, IpPermissions(frame[p].lambda_sg_id))
      [] call = "attach" ->
            ~CanModify(AttachGroups(frame[p].original_sg_ids, frame[p].temp_sg_id))
      [] call = "detach" -> ~CanModify(RestoreGroups(frame[p].original_sg_ids))
      [] call = "delete_security_group" -> ~CanDelete(frame[p].temp_sg_id)
      [] OTHER -> FALSE

\* The step p takes is one of a steady audit on reliable backends: a call
\* succeeds whenever its precondition holds.
Reliable(p) ==
    LET calls == frame'[p].calls
        n == Len(calls)
    IN /\ Steady(frame'[p])
       /\ n > 0 => \/ calls[n].outcome = "ok"
                   \/ Refused(p, calls[n].call, calls[n].outcome)

\* One step of invocation p of a steady audit on reliable backends.
HandlerReliable(p) ==
    \/ Invoke(p) /\ Reliable(p)
    \/ GetFunctionConfiguration(p) /\ Reliable(p)
    \/ DescribeInstances(p) /\ Reliable(p)
    \/ CreateSecurityGroup(p) /\ Reliable(p)
    \/ DescribeSecurityGroups(p) /\ Reliable(p)
    \/ AuthorizeSecurityGroupIngress(p) /\ Reliable(p)
    \/ Attach(p) /\ Reliable(p)
    \/ GetSecretValue(p) /\ Reliable(p)
    \/ Connect(p) /\ Reliable(p)
    \/ ExecCommand(p) /\ Reliable(p)
    \/ Close(p) /\ Reliable(p)
    \/ DescribeLogStreams(p) /\ Reliable(p)
    \/ PutItem(p) /\ Reliable(p)
    \/ CleanupDetach(p) /\ Reliable(p)
    \/ CleanupDelete(p) /\ Reliable(p)

\* Invocations for the same target that overlap: the Lambda service runs
\* each in an execution environment of its own, and their backend calls
\* interleave in any order.
NextConcurrent == \E p \in Procs : HandlerReliable(p)

SpecConcurrent == Init /\ [][NextConcurrent]_vars

\* The log-freshness check on its own, over the times and streams it can meet.
MinuteMs == 60 * 1000
FreshnessTimes == {48 * Hour, 48 * Hour + 1, 61 * Hour + 47 * MinuteMs + 13001,
                   70 * Hour + 59 * MinuteMs + 59999, 90 * Hour + 30 * MinuteMs}

\* lastEventTimestamp around the window's edge, and of a clock ahead of ours.
FreshnessEvents(now) ==
    {now - 9 * Hour, now - 10 * Hour + 1, now - 10 * Hour, now - 10 * Hour - 1,
     now - 11 * Hour, now - 1, now, now + Hour, NoTimestamp}

FreshnessResponses(now) ==
    {[kind |-> "error", last_event |-> NoTimestamp], [kind |-> "none", last_event |-> NoTimestamp]}
    \cup {[kind |-> "stream", last_event |-> t] : t \in FreshnessEvents(now)}

\* time.time() and the response of describe_log_streams.
DrawLogInput ==
    /\ log_check.pc \in {"idle", "checked"}
    /\ \E now \in FreshnessTimes : \E response \in FreshnessResponses(now) :
          log_check' = [pc |-> "input", current_time_ms |-> now, response |-> response,
                        audit_streaming |-> Streaming("NO")]
    /\ UNCHANGED <<audit, poller, splitter, discovery, starter>>

\* The branches that set audit_streaming.
CheckLogFreshness ==
    /\ log_check.pc = "input"
    /\ log_check' = [log_check EXCEPT
                        !.pc = "checked",
                        !.audit_streaming = AuditStreamingOf(log_check.response,
                                                             log_check.current_time_ms)]
    /\ UNCHANGED <<audit, poller, splitter, discovery, starter>>

NextFreshness == DrawLogInput \/ CheckLogFreshness

SpecFreshness == Init /\ [][NextFreshness]_vars

\* ------------------------------------------------ refresh status poller
\* ec2InstanceRefresh/check_refresh_status_lambda/app.py
RefreshStatuses == {"Pending", "InProgress", "Successful", "Failed", "Cancelled"}

\* event['status_check_counter']['max_checks'], when the event has none.
DefaultMaxChecks == 45

\* The max_checks an event carries: none, or a number.
MaxChecksInputs == {<<>>, <<1>>, <<2>>, <<3>>}

\* event.get('status_check_counter', {}).get('max_checks', 45)
MaxChecksOf(max_checks) == IF max_checks = <<>> THEN DefaultMaxChecks ELSE max_checks[1]

\* db_iteration_count = current_iteration_count + 1
DbIterationCount(check_count) == check_count + 1

\* Mutant: the timeout is declared one poll late.
TimedOutLate(instance_refresh_status, db_iteration_count, max_checks) ==
    /\ instance_refresh_status \in {"Pending", "InProgress"}
    /\ db_iteration_count > max_checks

\* The condition of the forced timeout.
TimedOut(instance_refresh_status, db_iteration_count, max_checks) ==
    /\ instance_refresh_status \in {"Pending", "InProgress"}
    /\ db_iteration_count >= max_checks

\* The monitor item's attributes an update sets; messages by their format.
StatusMessage(status) == [kind |-> "ASG refresh status", status |-> status, n |-> 0]
TimeoutMessage(max_checks) == [kind |-> "Instance Refresh timed out after", status |-> "", n |-> max_checks]
ErrorMessage == [kind |-> "Error in check_refresh_status_lambda_TBD", status |-> "", n |-> 0]

\* monitor_table.update_item(Key = asg_name, SET ...): the attributes named
\* are set, the others kept; the item is created when there is none.
UpdateItem(t, sets) == <<sets @@ (IF t = <<>> THEN [x \in {} |-> 0] ELSE t[1])>>

\* The Step Function invokes the poller: the first poll of a refresh with
\* check_count 0, and one more poll, the counter incremented, after a poll
\* that returned Pending or InProgress.
Poll ==
    /\ \/ /\ monitor.pc = "idle"
          /\ \E max_checks \in MaxChecksInputs :
                monitor' = [NoPoll EXCEPT !.pc = "describe_instance_refreshes",
                                          !.max_checks = max_checks]
       \/ /\ monitor.pc = "returned"
          /\ monitor.result.status \in {"Pending", "InProgress"}
          /\ monitor.check_count + 1 < MaxPolls
          /\ monitor' = [NoPoll EXCEPT !.pc = "describe_instance_refreshes",
                                       !.max_checks = monitor.max_checks,
                                       !.check_count = monitor.check_count + 1]
    /\ UNCHANGED <<audit, log_check, monitor_table, splitter, discovery, starter>>

\* autoscaling_client.describe_instance_refreshes and the status read from it.
DescribeInstanceRefreshes ==
    /\ monitor.pc = "describe_instance_refreshes"
    /\ \/ \E status \in RefreshStatuses :
             monitor' = [monitor EXCEPT !.pc = "update_status", !.instance_refresh_status = status]
       \/ \* the call fails, or returns no refresh of that id
          monitor' = [monitor EXCEPT !.pc = "update_error"]
    /\ UNCHANGED <<audit, log_check, monitor_table, splitter, discovery, starter>>

\* The update of the item with the polled status, then the timeout test;
\* without timeout the handler returns the polled status.
UpdateStatus ==
    /\ monitor.pc = "update_status"
    /\ \/ /\ monitor_table' =
                UpdateItem(monitor_table,
                           [current_status |-> monitor.instance_refresh_status,
                            iteration_count |-> DbIterationCount(monitor.check_count),
                            last_message |-> StatusMessage(monitor.instance_refresh_status)])
          /\ IF TimedOut(monitor.instance_refresh_status, DbIterationCount(monitor.check_count),
                         MaxChecksOf(monitor.max_checks))
             THEN monitor' = [monitor EXCEPT !.pc = "update_timeout"]
             ELSE monitor' = [monitor EXCEPT
                                 !.pc = "returned",
                                 !.result = [kind |-> "return",
                                             status |-> monitor.instance_refresh_status]]
       \/ /\ monitor' = [monitor EXCEPT !.pc = "update_error"]
          /\ UNCHANGED monitor_table
    /\ UNCHANGED <<audit, log_check, splitter, discovery, starter>>

\* The update that forces TIMEOUT_FAILED, and the return of the polled status.
UpdateTimeout ==
    /\ monitor.pc = "update_timeout"
    /\ \/ /\ monitor_table' =
                UpdateItem(monitor_table,
                           [current_status |-> "TIMEOUT_FAILED",
                            last_message |-> TimeoutMessage(MaxChecksOf(monitor.max_checks))])
          /\ monitor' = [monitor EXCEPT
                            !.pc = "returned",
                            !.result = [kind |-> "return",
                                        status |-> monitor.instance_refresh_status]]
       \/ /\ monitor' = [monitor EXCEPT !.pc = "update_error"]
          /\ UNCHANGED monitor_table
    /\ UNCHANGED <<audit, log_check, splitter, discovery, starter>>

\* The except clause: the update with CHECK_ERROR, and the raise (of the
\* error caught, or of the error of this update).
UpdateError ==
    /\ monitor.pc = "update_error"
    /\ \/ monitor_table' =
             UpdateItem(monitor_table,
                        [current_status |-> "CHECK_ERROR",
                         iteration_count |-> DbIterationCount(monitor.check_count),
                         last_message |-> ErrorMessage])
       \/ UNCHANGED monitor_table
    /\ monitor' = [monitor EXCEPT !.pc = "raised", !.result = [kind |-> "raise", status |-> ""]]
    /\ UNCHANGED <<audit, log_check, splitter, discovery, starter>>

NextMonitor == Poll \/ DescribeInstanceRefreshes \/ UpdateStatus \/ UpdateTimeout \/ UpdateError

SpecMonitor == Init /\ [][NextMonitor]_vars

\* ------------------------------------------------------- batch splitter
\* ec2InstanceRefresh/split_ASG_into_Batches/app.py.  Strings whose content
\* the handler inspects (BATCH_SIZE, the environment flags) are sequences of
\* characters, so that int() and str().strip() are computed, not assumed.

DefaultBatchSize == 10

Whitespace == {" ", "\t", "\n"}

DigitChars == {"0", "1", "2", "3", "4", "5", "6", "7", "8", "9"}

DigitValue(c) ==
    CASE c = "0" -> 0 [] c = "1" -> 1 [] c = "2" -> 2 [] c = "3" -> 3 [] c = "4" -> 4
      [] c = "5" -> 5 [] c = "6" -> 6 [] c = "7" -> 7 [] c = "8" -> 8 [] c = "9" -> 9

RECURSIVE LStrip(_)
LStrip(s) == IF s # <<>> /\ Head(s) \in Whitespace THEN LStrip(Tail(s)) ELSE s

RECURSIVE RStrip(_)
RStrip(s) ==
    IF s # <<>> /\ s[Len(s)] \in Whitespace THEN RStrip(SubSeq(s, 1, Len(s) - 1)) ELSE s

\* str.strip()
Strip(s) == RStrip(LStrip(s))

RECURSIVE DigitsValue(_, _)
DigitsValue(s, acc) ==
    IF s = <<>> THEN acc ELSE DigitsValue(Tail(s), 10 * acc + DigitValue(Head(s)))

\* int(text): <<n>>, or <<>> for ValueError.  Surrounding whitespace and one
\* leading sign are accepted; the rest must be a non-empty run of digits.
ParseInt(text) ==
    LET t      == Strip(text)
        signed == t # <<>> /\ t[1] \in {"+", "-"}
        body   == IF signed THEN Tail(t) ELSE t
        valid  == body # <<>> /\ \A i \in 1..Len(body) : body[i] \in DigitChars
        n      == DigitsValue(body, 0)
    IN  IF ~valid THEN <<>>
        ELSE IF signed /\ t[1] = "-" THEN <<0 - n>> ELSE <<n>>

\* Lines 24-28: int(os.environ.get("BATCH_SIZE", "10")), ValueError -> 10.
\* env is <<>> when the variable is unset, <<text>> when it is set.
BatchSizeEnv(env) ==
    LET text   == IF env = <<>> THEN <<"1", "0">> ELSE env[1]
        parsed == ParseInt(text)
    IN  IF parsed = <<>> THEN DefaultBatchSize ELSE parsed[1]

\* Lines 81-82.
BatchSizeOf(batch_size) == IF batch_size <= 0 THEN DefaultBatchSize ELSE batch_size

\* A value of the environment flag in the parsed YAML.
NoneValue     == [type |-> "none", b |-> FALSE, text |-> <<>>]
BoolValue(b)  == [type |-> "bool", b |-> b, text |-> <<>>]
StrValue(t)   == [type |-> "str", b |-> FALSE, text |-> t]

\* str(value)
Str(v) ==
    CASE v.type = "bool" -> IF v.b THEN <<"T", "r", "u", "e">> ELSE <<"F", "a", "l", "s", "e">>
      [] v.type = "none" -> <<"N", "o", "n", "e">>
      [] OTHER           -> v.text

\* Lines 67-73: the entry is a mapping and its flag is present and reads 'True'.
Qualifies(environments) ==
    /\ environments.dict
    /\ environments.value # NoneValue
    /\ Strip(Str(environments.value)) = <<"T", "r", "u", "e">>

\* Line 76: f"{service_name}{ASG_SUFFIX}"
AsgName(service_name) == <<service_name, "ASG_SUFFIX">>

\* Lines 64-77: the names of the qualifying services, in mapping order.
AsgsToRefresh(service_deployment) ==
    LET kept == SelectSeq(service_deployment, LAMBDA svc : Qualifies(svc.environments))
    IN  [i \in 1..Len(kept) |-> AsgName(kept[i].service_name)]

\* range(start, stop, step) for a positive step, without its last start
\* when the last batch would be partial.
RECURSIVE PyRangeFullOnly(_, _, _)
PyRangeFullOnly(start, stop, step) ==
    IF start + step > stop THEN <<>>
    ELSE <<start>> \o PyRangeFullOnly(start + step, stop, step)

\* range(start, stop, step) for a positive step.
RECURSIVE PyRange(_, _, _)
PyRange(start, stop, step) ==
    IF start >= stop THEN <<>> ELSE <<start>> \o PyRange(start + step, stop, step)

\* seq[i:j] for 0 <= i <= j
Slice(seq, i, j) == SubSeq(seq, i + 1, IF j < Len(seq) THEN j ELSE Len(seq))

\* Lines 84-85.
BatchesOf(asgs, batch_size) ==
    LET starts == PyRange(0, Len(asgs), batch_size)
    IN  [k \in 1..Len(starts) |-> Slice(asgs, starts[k], starts[k] + batch_size)]

SplitResult(kind, total, batch_size, batches, detail) ==
    [kind |-> kind, total_asgs |-> total, batch_size |-> batch_size,
     asg_batches |-> batches, error_detail |-> detail]

\* The values BATCH_SIZE takes: unset, or one of these texts.
BatchSizeTexts ==
    { <<"1", "0">>, <<"3">>, <<"1">>, <<"0">>, <<"-", "2">>, <<"a", "b", "c">>,
      <<"2", ".", "5">>, <<>>, <<" ", "4", " ">>, <<"+", "2">> }

BatchSizeInputs == {<<>>} \cup {<<t>> : t \in BatchSizeTexts}

Dict(v) == [dict |-> TRUE, value |-> v]
NotDict == [dict |-> FALSE, value |-> NoneValue]

\* Deployment files: the entries repeat one of these patterns.
ServicePatterns ==
    { <<Dict(BoolValue(TRUE))>>,
      <<Dict(StrValue(<<"T", "r", "u", "e">>)), Dict(StrValue(<<"F", "a", "l", "s", "e">>))>>,
      <<NotDict, Dict(StrValue(<<" ", "T", "r", "u", "e", " ">>)), Dict(NoneValue),
        Dict(StrValue(<<"t", "r", "u", "e">>)), Dict(BoolValue(FALSE))>>,
      <<Dict(StrValue(<<"F", "a", "l", "s", "e">>))>> }

ServiceDeployment(n, pattern) ==
    [i \in 1..n |-> [service_name  |-> i,
                     environments  |-> pattern[((i - 1) % Len(pattern)) + 1]]]

\* What yaml.safe_load makes of the object: a YAMLError, None (empty file),
\* a mapping without ServiceDeployment, or a mapping with it.
Documents ==
    {[kind |-> k, services |-> <<>>] : k \in {"invalid", "none", "no_key"}}
    \cup {[kind |-> "mapping", services |-> ServiceDeployment(n, pat)] :
            n \in 0..MaxServices, pat \in ServicePatterns}

\* Lines 14-28: the environment is read and BATCH_SIZE parsed.
SplitInvoke ==
    /\ splitter.pc = "idle"
    /\ \E env \in BatchSizeInputs, doc \in Documents :
         splitter' = [pc |-> "get_object", env |-> env, document |-> doc,
                      batch_size |-> BatchSizeEnv(env),
                      result |-> SplitResult("none", 0, 0, <<>>, <<>>)]
    /\ UNCHANGED <<audit, log_check, poller, discovery, starter>>

\* Lines 31-94: s3.get_object, then everything up to the return.
GetObject ==
    /\ splitter.pc = "get_object"
    /\ \E ok \in BOOLEAN :
         LET doc        == splitter.document
             batch_size == splitter.batch_size
             asgs       == AsgsToRefresh(IF doc.kind = "mapping" THEN doc.services ELSE <<>>)
             size       == BatchSizeOf(batch_size)
             result     ==
                 CASE ~ok                  ->
                        SplitResult("return", 0, batch_size, <<>>, <<"Failed to read S3 file">>)
                   [] doc.kind = "invalid" ->
                        SplitResult("return", 0, batch_size, <<>>, <<"YAML Parsing Error">>)
                   [] doc.kind = "none"    ->
                        SplitResult("raise", 0, batch_size, <<>>, <<"AttributeError">>)
                   [] OTHER                ->
                        SplitResult("return", Len(asgs), size, BatchesOf(asgs, size), <<>>)
         IN  splitter' = [splitter EXCEPT !.pc = "done", !.result = result]
    /\ UNCHANGED <<audit, log_check, poller, discovery, starter>>

NextBatches == SplitInvoke \/ GetObject

SpecBatches == Init /\ [][NextBatches]_vars

\* ----------------------------------------------------- discovery handler
\* ec2AuditMonitor/AuditDStatusMonitorFunction1/app.py.  The module imports
\* boto3 and logging only (lines 1-2), so the name os in the handler's first
\* statement (line 35) is unbound: the statement raises NameError and the
\* table clearing and the listing after it are never reached.

DiscoveryStates == {"running", "stopped", "pending"}

\* The instances of the account: state, Name tag (<<>> when there is none)
\* and key pair (<<>> when there is none).
InstanceKinds ==
    [state : DiscoveryStates, name : {<<>>, <<"web">>}, key : {<<>>, <<"kp">>}]

RECURSIVE Fleets(_)
Fleets(n) ==
    IF n = 0 THEN {<<>>}
    ELSE LET shorter == Fleets(n - 1)
         IN  shorter \cup {Append(f, k) : f \in {g \in shorter : Len(g) = n - 1},
                                          k \in InstanceKinds}

\* Line 33: the handler is invoked.
DiscoveryInvoke ==
    /\ discovery.pc = "idle"
    /\ \E fleet \in Fleets(MaxInstances) :
         discovery' = [pc |-> "environ", instances |-> fleet,
                       result |-> [kind |-> "none", error |-> "", value |-> <<>>]]
    /\ UNCHANGED <<audit, log_check, poller, splitter, starter>>

\* Line 35: os.environ.get with os unbound.
TableNameLookup ==
    /\ discovery.pc = "environ"
    /\ discovery' = [discovery EXCEPT
                        !.pc = "done",
                        !.result = [kind |-> "raise", error |-> "NameError", value |-> <<>>]]
    /\ UNCHANGED <<audit, log_check, poller, splitter, starter>>

NextDiscovery == DiscoveryInvoke \/ TableNameLookup

SpecDiscovery == Init /\ [][NextDiscovery]_vars

\* ------------------------------------------------------- refresh starter
\* ec2InstanceRefresh/start_refresh_lambda/app.py.  The ASG the handler is
\* given: its DesiredCapacity and, for each of its target groups in
\* TargetGroupARNs order, the health states of the registered targets.

DesiredCapacities == {0, 2}
TargetStates == {"healthy", "unhealthy"}

RECURSIVE SeqsUpTo(_, _)
SeqsUpTo(S, n) ==
    IF n = 0 THEN {<<>>}
    ELSE LET shorter == SeqsUpTo(S, n - 1)
         IN  shorter \cup {Append(q, x) : q \in {r \in shorter : Len(r) = n - 1}, x \in S}

TargetGroupsInputs == SeqsUpTo(SeqsUpTo(TargetStates, MaxTargets), MaxGroups)

\* The item put_item writes for the ASG.
MonitorItem(current_status, refresh_id) ==
    [current_status |-> current_status, refresh_id |-> refresh_id, iteration_count |-> 0]

StartResult(kind, skip, refresh_id) == [kind |-> kind, skip |-> skip, refresh_id |-> refresh_id]

\* Mutant: a target group without registered targets passes.
GroupHealthIgnoringEmpty(targets) ==
    IF \E i \in DOMAIN targets : targets[i] # "healthy" THEN "unhealthy" ELSE "ok"

\* Lines 40-53, for the targets of one group: no target at all, a target
\* that is not healthy, or neither.
GroupHealth(targets) ==
    IF targets = <<>> THEN "empty"
    ELSE IF \E i \in DOMAIN targets : targets[i] # "healthy" THEN "unhealthy"
    ELSE "ok"

\* A failing call inside the try block: the except clause is entered.
StartFailed(call) == starter' = [starter EXCEPT !.pc = "put_critical_error", !.failed = call]

\* Line 60: the event is read.
StartInvoke ==
    /\ starter.pc = "idle"
    /\ \E desired \in DesiredCapacities, groups \in TargetGroupsInputs :
         starter' = [pc |-> "describe_auto_scaling_groups", desired |-> desired,
                     target_groups |-> groups, examined |-> 0, started |-> FALSE,
                     failed |-> "", result |-> StartResult("none", FALSE, "")]
    /\ UNCHANGED <<audit, log_check, poller, splitter, discovery>>

\* Lines 68-78: describe_auto_scaling_groups and the DesiredCapacity test.
DescribeAutoScalingGroups ==
    /\ starter.pc = "describe_auto_scaling_groups"
    /\ \/ starter' = [starter EXCEPT !.pc = IF starter.desired = 0
                                           THEN "put_skipped_capacity_zero"
                                           ELSE "describe_target_groups"]
       \/ StartFailed("describe_auto_scaling_groups")
    /\ UNCHANGED <<audit, log_check, poller, splitter, discovery>>

\* Lines 80-95: the SKIPPED_CAPACITY_ZERO record and the return.
PutSkippedCapacityZero ==
    /\ starter.pc = "put_skipped_capacity_zero"
    /\ \/ /\ monitor_table' = <<MonitorItem("SKIPPED_CAPACITY_ZERO", "N/A")>>
          /\ starter' = [starter EXCEPT !.pc = "done",
                                        !.result = StartResult("return", TRUE, "")]
       \/ /\ StartFailed("put_item")
          /\ UNCHANGED monitor_table
    /\ UNCHANGED <<audit, log_check, monitor, splitter, discovery>>

\* Lines 23-31: check_target_group_health describes the ASG again; without
\* target groups the health is no block.
DescribeTargetGroups ==
    /\ starter.pc = "describe_target_groups"
    /\ \/ starter' = [starter EXCEPT !.pc = IF starter.target_groups = <<>>
                                           THEN "start_instance_refresh"
                                           ELSE "describe_target_health"]
       \/ StartFailed("describe_auto_scaling_groups")
    /\ UNCHANGED <<audit, log_check, poller, splitter, discovery>>

\* Lines 34-56: one iteration of the loop over the target groups:
\* describe_target_health and the tests on its targets.
DescribeTargetHealth ==
    /\ starter.pc = "describe_target_health"
    /\ LET k       == starter.examined + 1
           health  == GroupHealth(starter.target_groups[k])
       IN \/ starter' = [starter EXCEPT
                            !.examined = k,
                            !.pc = IF health # "ok" THEN "put_skipped_unhealthy"
                                   ELSE IF k < Len(starter.target_groups)
                                   THEN "describe_target_health"
                                   ELSE "start_instance_refresh"]
          \/ StartFailed("describe_target_health")
    /\ UNCHANGED <<audit, log_check, poller, splitter, discovery>>

\* Lines 100-120: the SKIPPED_UNHEALTHY record and the return.
PutSkippedUnhealthy ==
    /\ starter.pc = "put_skipped_unhealthy"
    /\ \/ /\ monitor_table' = <<MonitorItem("SKIPPED_UNHEALTHY", "N/A")>>
          /\ starter' = [starter EXCEPT !.pc = "done",
                                        !.result = StartResult("return", TRUE, "")]
       \/ /\ StartFailed("put_item")
          /\ UNCHANGED monitor_table
    /\ UNCHANGED <<audit, log_check, monitor, splitter, discovery>>

\* Lines 126-136: start_instance_refresh.
StartInstanceRefresh ==
    /\ starter.pc = "start_instance_refresh"
    /\ \/ starter' = [starter EXCEPT !.pc = "put_refresh_started", !.started = TRUE]
       \/ StartFailed("start_instance_refresh")
    /\ UNCHANGED <<audit, log_check, poller, splitter, discovery>>

\* Lines 139-157: the REFRESH_STARTED record and the return.
PutRefreshStarted ==
    /\ starter.pc = "put_refresh_started"
    /\ \/ /\ monitor_table' = <<MonitorItem("REFRESH_STARTED", "refresh-1")>>
          /\ starter' = [starter EXCEPT !.pc = "done",
                                        !.result = StartResult("return", FALSE, "refresh-1")]
       \/ /\ StartFailed("put_item")
          /\ UNCHANGED monitor_table
    /\ UNCHANGED <<audit, log_check, monitor, splitter, discovery>>

\* Lines 159-175: the except clause writes CRITICAL_ERROR and re-raises;
\* when this write fails too, its error is the one raised.
PutCriticalError ==
    /\ starter.pc = "put_critical_error"
    /\ \/ monitor_table' = <<MonitorItem("CRITICAL_ERROR", "N/A")>>
       \/ UNCHANGED monitor_table
    /\ starter' = [starter EXCEPT !.pc = "done", !.result = StartResult("raise", FALSE, "")]
    /\ UNCHANGED <<audit, log_check, monitor, splitter, discovery>>

NextStarter ==
    \/ StartInvoke
    \/ DescribeAutoScalingGroups
    \/ PutSkippedCapacityZero
    \/ DescribeTargetGroups
    \/ DescribeTargetHealth
    \/ PutSkippedUnhealthy
    \/ StartInstanceRefresh
    \/ PutRefreshStarted
    \/ PutCriticalError

SpecStarter == Init /\ [][NextStarter]_vars

\* ================================================================ claims
\* What invocation p has called so far, from its call log.
Calls(p) == frame[p].calls
Called(p, call) == \E i \in DOMAIN Calls(p) : Calls(p)[i].call = call
Succeeded(p, call) ==
    \E i \in DOMAIN Calls(p) : Calls(p)[i].call = call /\ Calls(p)[i].outcome = "ok"
Failed(p, call) ==
    \E i \in DOMAIN Calls(p) : Calls(p)[i].call = call /\ Calls(p)[i].outcome # "ok"
Done(p) == frame[p].pc = "done"

\* The invocation reached GRANT_ACCESS: a temporary group id was created or resolved.
ReachedGrant(p) == frame[p].temp_sg_id # None

\* ----------------------------------------------------------------- C1
\* C1 as stated: every terminated invocation that reached GRANT_ACCESS has
\* left the temporary group deleted and the instance's groups equal to the
\* snapshot.
C1_AsStated ==
    \A p \in Procs :
        (Done(p) /\ ReachedGrant(p)) =>
            /\ frame[p].temp_sg_id \notin DOMAIN security_groups
            /\ instance_sgs = frame[p].original_sg_ids

\* C1, amended: every terminated invocation that reached GRANT_ACCESS has
\* attempted the cleanup, whether it returns or raises: it called
\* modify_instance_attribute with the snapshot and, when that succeeded,
\* delete_security_group.  When the detach succeeded the instance's groups
\* equal the snapshot; when the delete succeeded too the temporary group is
\* gone.  A cleanup call that fails is swallowed and leaves the group behind.
C1_CleanupAttempted ==
    \A p \in Procs :
        (Done(p) /\ ReachedGrant(p)) =>
            /\ frame[p].result.kind \in {"return", "raise"}
            /\ Called(p, "detach")
            /\ Succeeded(p, "detach") =>
                  /\ instance_sgs = frame[p].original_sg_ids
                  /\ Called(p, "delete_security_group")
            /\ (Succeeded(p, "detach") /\ Succeeded(p, "delete_security_group")) =>
                  frame[p].temp_sg_id \notin DOMAIN security_groups
            /\ Failed(p, "detach") => ~Called(p, "delete_security_group")

\* A downstream step failed, the handler raises, and the cleanup went through.
C1_Witness ==
    \E p \in Procs :
        /\ Done(p) /\ ReachedGrant(p)
        /\ frame[p].result.kind = "raise"
        /\ Succeeded(p, "attach")
        /\ Succeeded(p, "delete_security_group")
        /\ instance_sgs = InitialSgs

\* ----------------------------------------------------------------- C2
NotRunning(p) == frame[p].current_state \notin {None, "running"}

\* The handler never touched a security group or the instance's membership.
NoGrantCalls(p) ==
    \A c \in {"create_security_group", "describe_security_groups",
              "authorize_security_group_ingress", "attach", "detach",
              "delete_security_group"} : ~Called(p, c)

\* The upper-case names of the states that are not running.
C2_StateName == [stopped |-> "STOPPED", pending |-> "PENDING"]

\* C2 as stated: for a target that is not running no temporary group is
\* created, authorized or attached, one SKIPPED (<STATE>) record is written,
\* and the handler returns without raising and without cleanup.
C2_AsStated ==
    \A p \in Procs :
        (Done(p) /\ NotRunning(p)) =>
            /\ NoGrantCalls(p)
            /\ frame[p].temp_sg_id = None
            /\ frame[p].result.kind = "return"
            /\ \E i \in table : /\ i.Timestamp = frame[p].timestamp
                                /\ i.OverallHealth.kind = "SKIPPED"
                                /\ i.OverallHealth.state = C2_StateName[frame[p].current_state]

\* C2, amended: for a target that is not running no temporary group is ever
\* created, authorized or attached and no cleanup runs; the handler makes
\* one record write, of SKIPPED (<STATE>); when that write succeeds the
\* record is in the table and the handler returns "Instance not running";
\* when it fails the error is raised and the invocation wrote no record.
C2_SkipsNotRunning ==
    \A p \in Procs :
        NotRunning(p) =>
            /\ NoGrantCalls(p)
            /\ frame[p].temp_sg_id = None
            /\ frame[p].pc \in {"put_item_skipped", "done"}
            /\ Done(p) =>
                  /\ Len(Calls(p)) = 3
                  /\ Calls(p)[3].call = "put_item_skipped"
                  /\ IF Succeeded(p, "put_item_skipped")
                     THEN /\ frame[p].result = Return("Instance not running", NoErr, NoItem)
                          /\ \E i \in table :
                                /\ i.InstanceId = InstanceId
                                /\ i.Timestamp = frame[p].timestamp
                                /\ i.OverallHealth.kind = "SKIPPED"
                                /\ i.OverallHealth.state = C2_StateName[frame[p].current_state]
                     ELSE frame[p].result.kind = "raise"

\* A stopped target was skipped, with the groups as they were.
C2_Witness ==
    \E p \in Procs :
        /\ Done(p) /\ frame[p].current_state = "stopped"
        /\ frame[p].result.kind = "return"
        /\ instance_sgs = InitialSgs /\ DOMAIN security_groups = {}

\* ----------------------------------------------------------------- C3
\* A step of the protected block other than the log lookup failed: no key
\* pair, the secret, every login identity, a probe, or the success record.
PostGrantFailure(p) ==
    /\ Succeeded(p, "attach")
    /\ \/ frame[p].key_pair_name = None
       \/ Failed(p, "get_secret_value")
       \/ (~frame[p].connected /\ frame[p].tried = usernames)
       \/ Failed(p, "exec_command")
       \/ Failed(p, "put_item")

\* The log lookup failed.
LogLookupFailure(p) == Succeeded(p, "attach") /\ Failed(p, "describe_log_streams")

\* The invocation wrote a FAILED record under its timestamp, with this reason.
FailedRecord(p, reason) ==
    \E i \in table : /\ i.InstanceId = InstanceId
                     /\ i.Timestamp = frame[p].timestamp
                     /\ i.OverallHealth.kind = "FAILED"
                     /\ i.OverallHealth.reason = reason

\* C3 as stated: after any failure past GRANT_ACCESS, the log lookup's
\* included, the terminated handler has written a FAILED record, run the
\* cleanup and returned the soft result.
C3_AsStated ==
    \A p \in Procs :
        (Done(p) /\ (PostGrantFailure(p) \/ LogLookupFailure(p))) =>
            /\ frame[p].result.kind = "return"
            /\ frame[p].result.tag = "SKIPPED"
            /\ FailedRecord(p, frame[p].result.err)
            /\ Called(p, "detach")

\* C3, amended: a failure in the protected block other than a log-lookup
\* error (no key pair, secret fetch, no connectable identity, a probe, the
\* success-record write) is caught by the inner handler, which writes a
\* FAILED: <reason> record; the cleanup runs in every case; when that write
\* succeeds the handler returns the soft SKIPPED result with the reason, and
\* when the write itself fails the error is raised after the cleanup.  A
\* log-lookup error alone is not a failure of the audit: the handler goes on
\* to the success record and returns it.
C3_InnerFailureCaught ==
    \A p \in Procs :
        /\ PostGrantFailure(p) =>
              /\ frame[p].pc \in {"put_item_failed", "cleanup_detach", "cleanup_delete", "done"}
              /\ frame[p].inner_err # NoErr
              /\ frame[p].key_pair_name = None =>
                    frame[p].inner_err.kind = "No KeyPair associated with this instance"
              /\ frame[p].pc # "put_item_failed" => Called(p, "put_item_failed")
              /\ Done(p) =>
                    /\ Called(p, "detach")
                    /\ IF Succeeded(p, "put_item_failed")
                       THEN /\ frame[p].result = Return("SKIPPED", frame[p].inner_err, NoItem)
                            /\ FailedRecord(p, frame[p].inner_err)
                       ELSE frame[p].result.kind = "raise"
        /\ (Done(p) /\ LogLookupFailure(p) /\ ~PostGrantFailure(p)) =>
              /\ frame[p].result.kind = "return"
              /\ frame[p].result.tag = "data"
              /\ ~Called(p, "put_item_failed")
              /\ Called(p, "detach")

\* The secret could not be fetched: FAILED is written, the handler returns
\* SKIPPED and the group is detached and deleted.
C3_Witness ==
    \E p \in Procs :
        /\ Done(p)
        /\ Failed(p, "get_secret_value")
        /\ frame[p].result.tag = "SKIPPED"
        /\ FailedRecord(p, frame[p].result.err)
        /\ Succeeded(p, "delete_security_group")

\* ----------------------------------------------------------------- C4
\* A step before or during GRANT_ACCESS failed (a Duplicate on creation is
\* no failure: it leads to the lookup).
PreGrantFailure(p) ==
    \/ Failed(p, "get_function_configuration")
    \/ Failed(p, "describe_instances")
    \/ \E i \in DOMAIN Calls(p) :
          /\ Calls(p)[i].call = "create_security_group"
          /\ Calls(p)[i].outcome \notin {"ok", "InvalidGroup.Duplicate"}
    \/ Failed(p, "describe_security_groups")
    \/ Failed(p, "authorize_security_group_ingress")
    \/ Failed(p, "attach")

\* The invocation made no record write.
NoRecordWrite(p) ==
    \A c \in {"put_item_skipped", "put_item", "put_item_failed"} : ~Called(p, c)

\* C4: a failure before or during GRANT_ACCESS is raised to the caller, and
\* the invocation writes no audit record.
C4_HardFailure ==
    \A p \in Procs :
        PreGrantFailure(p) =>
            /\ frame[p].pc \in {"cleanup_detach", "cleanup_delete", "done"}
            /\ frame[p].result.kind = "raise"
            /\ NoRecordWrite(p)

\* The attach failed: the handler raises, having written nothing.
C4_Witness ==
    \E p \in Procs :
        /\ Done(p)
        /\ Failed(p, "attach")
        /\ frame[p].result.kind = "raise"
        /\ table = {}

\* ----------------------------------------------------------------- C5
\* The rule opens TCP port 22 to one security group of the Lambda and to no
\* address range.
PeerScoped(rule) ==
    /\ rule.IpProtocol = "tcp" /\ rule.FromPort = 22 /\ rule.ToPort = 22
    /\ rule.IpRanges = {}
    /\ Cardinality(rule.UserIdGroupPairs) = 1
    /\ rule.UserIdGroupPairs \subseteq Range(LambdaSecurityGroupIds)

\* C5: every ingress rule on a temporary group is inbound TCP 22 from the
\* Lambda's own security group only, never from a CIDR; so is the access
\* granted by a temporary group attached to the instance.
C5_PeerScopedIngress ==
    /\ \A g \in DOMAIN security_groups : \A rule \in security_groups[g] : PeerScoped(rule)
    /\ \A p \in Procs : frame[p].lambda_sg_id \in {None, LambdaSecurityGroupIds[1]}

\* The temporary group is attached and carries its rule.
C5_Witness ==
    \E g \in DOMAIN security_groups :
        /\ g \in Range(instance_sgs)
        /\ security_groups[g] # {}

ConnectCalls(p) == SelectSeq(Calls(p), LAMBDA c : c.call = "connect")

\* last_error as the handler sets it for the outcome of an attempt as user.
C7_LastError(outcome, user) ==
    IF outcome = "AuthenticationException"
    THEN [kind |-> "Auth failed for", arg |-> user, sub |-> ""]
    ELSE [kind |-> "timed out", arg |-> "", sub |-> ""]

\* C7: the identities are tried in the order [ubuntu, ec2-user]; the first
\* success ends the loop, no identity is tried after it, and the probes
\* follow; an authentication failure or any other error moves on to the
\* next identity; when every identity has failed the connect step fails
\* with an error carrying the last error observed, and no probe is run.
C7_LoginOrder ==
    \A p \in Procs :
        LET attempts == ConnectCalls(p)
            n == Len(attempts)
        IN /\ frame[p].tried = SubSeq(<<"ubuntu", "ec2-user">>, 1, n)
           /\ n <= 2
           /\ \A i \in 1..n : attempts[i].outcome = "ok" => i = n
           /\ frame[p].connected <=> (n > 0 /\ attempts[n].outcome = "ok")
           /\ frame[p].pc = "connect" => (~frame[p].connected /\ n < 2)
           /\ (n = 1 /\ ~frame[p].connected) => frame[p].pc = "connect"
           /\ (n > 0 /\ ~frame[p].connected) =>
                 frame[p].last_error = C7_LastError(attempts[n].outcome, frame[p].tried[n])
           /\ Called(p, "exec_command") => frame[p].connected
           /\ (n = 2 /\ ~frame[p].connected) =>
                 /\ frame[p].pc \in {"put_item_failed", "cleanup_detach", "cleanup_delete", "done"}
                 /\ frame[p].inner_err.kind = "Could not connect with any known username. Last error"
                 /\ frame[p].inner_err.arg = frame[p].last_error.kind
                 /\ frame[p].inner_err.sub = frame[p].last_error.arg
                 /\ ~Called(p, "exec_command")

\* ubuntu was refused, ec2-user got in, and the probes ran.
C7_Witness ==
    \E p \in Procs :
        /\ frame[p].tried = <<"ubuntu", "ec2-user">>
        /\ frame[p].connected
        /\ ConnectCalls(p)[1].outcome = "AuthenticationException"
        /\ Called(p, "exec_command")

\* ----------------------------------------------------------------- C8
\* The records of the success path.
SuccessRecords == {i \in table : i.OverallHealth.kind \in {"HEALTHY", "UNHEALTHY"}}

\* C8: a record of the success path is HEALTHY exactly when both probed
\* services are active and the streaming state is YES, and UNHEALTHY in
\* every other case.
C8_HealthyIff ==
    /\ \A i \in SuccessRecords :
          i.OverallHealth.kind = "HEALTHY" <=>
              /\ i.CloudWatchAgentStatus = "active"
              /\ i.AuditdStatus = "active"
              /\ i.AuditStreaming.kind = "YES"
    /\ \A p \in Procs :
          Succeeded(p, "put_item") =>
              \E i \in SuccessRecords :
                  /\ i.Timestamp = frame[p].timestamp
                  /\ i.CloudWatchAgentStatus = frame[p].service_statuses["amazon-cloudwatch-agent"]
                  /\ i.AuditdStatus = frame[p].service_statuses["auditd"]
                  /\ i.AuditStreaming = frame[p].audit_streaming

\* One service is inactive while the stream is fresh: UNHEALTHY.
C8_Witness ==
    \E i \in SuccessRecords :
        /\ i.OverallHealth.kind = "UNHEALTHY"
        /\ i.CloudWatchAgentStatus = "active"
        /\ i.AuditdStatus = "inactive"
        /\ i.AuditStreaming.kind = "YES"

\* ----------------------------------------------------------------- C9
\* C9: the freshness check gives YES when the last event is less than ten
\* hours old (nine hours, say), STALE with the last event's local time
\* (UTC+5:30) as HH:MM when it is ten hours old or older (eleven, say),
\* "NO (Stream <prefix> not found)" with the prefix /<instance_name>/<instance_id>
\* when no stream matches, and "NO (Stream empty)" when the stream has no
\* last event.
C9_Freshness ==
    log_check.pc = "checked" =>
        LET now == log_check.current_time_ms
            r == log_check.response
            out == log_check.audit_streaming
        IN /\ r.kind = "none" =>
                 /\ out.kind = "NO_NOT_FOUND"
                 /\ out.prefix = <<"web", "i-1">>
           /\ (r.kind = "stream" /\ r.last_event = 0 - 1) => out.kind = "NO_EMPTY"
           /\ (r.kind = "stream" /\ r.last_event >= 0) =>
                 /\ (now - r.last_event < 36000000) => out.kind = "YES"
                 /\ (now - r.last_event >= 36000000) =>
                       /\ out.kind = "STALE"
                       /\ out.hh \in 0..23 /\ out.mm \in 0..59
                       /\ out.hh * 60 + out.mm = ((r.last_event \div 60000) + 330) % 1440
                 /\ (r.last_event = now - 9 * 3600000) => out.kind = "YES"
                 /\ (r.last_event = now - 11 * 3600000) => out.kind = "STALE"

\* Checked at 00:00 UTC of the third day, the last event was eleven hours
\* before: STALE (Last seen at 18:30).
C9_Witness ==
    /\ log_check.pc = "checked"
    /\ log_check.current_time_ms = 48 * 3600000
    /\ log_check.response = [kind |-> "stream", last_event |-> 37 * 3600000]
    /\ log_check.audit_streaming.kind = "STALE"
    /\ log_check.audit_streaming.hh = 18
    /\ log_check.audit_streaming.mm = 30

\* ---------------------------------------------------------------- C10
\* The success record of p in the table.
SuccessRecord(p, i) ==
    /\ i \in table
    /\ i.InstanceId = InstanceId
    /\ i.Timestamp = frame[p].timestamp
    /\ i.CloudWatchAgentStatus = frame[p].service_statuses["amazon-cloudwatch-agent"]
    /\ i.AuditdStatus = frame[p].service_statuses["auditd"]

\* C10 as stated: after an error of the log lookup the terminated handler
\* has persisted and returned the record with AuditStreaming = ERROR and
\* OverallHealth = UNHEALTHY, and has written no FAILED record.
C10_AsStated ==
    \A p \in Procs :
        (Done(p) /\ LogLookupFailure(p)) =>
            /\ frame[p].result.tag = "data"
            /\ ~Called(p, "put_item_failed")
            /\ \E i \in table : /\ SuccessRecord(p, i)
                                /\ i.AuditStreaming.kind = "ERROR"
                                /\ i.OverallHealth.kind = "UNHEALTHY"

\* C10, amended: an error of the log lookup is not propagated: the streaming
\* state is ERROR and the handler goes on to write the success record.  When
\* that write succeeds the record holds the probed statuses, AuditStreaming
\* = ERROR and OverallHealth = UNHEALTHY, it is what the handler returns, and
\* no FAILED record is written; only when the write of the success record
\* itself fails does the inner handler write a FAILED record.
C10_LookupErrorAbsorbed ==
    \A p \in Procs : \A n \in DOMAIN Calls(p) :
        (Calls(p)[n] = [call |-> "describe_log_streams", outcome |-> "error"]) =>
            /\ frame[p].audit_streaming.kind = "ERROR"
            /\ n = Len(Calls(p)) => (frame[p].pc = "put_item" /\ frame[p].result.kind = "none")
            /\ n < Len(Calls(p)) => Calls(p)[n + 1].call = "put_item"
            /\ Succeeded(p, "put_item") =>
                  /\ ~Called(p, "put_item_failed")
                  /\ frame[p].result.kind = "return"
                  /\ frame[p].result.tag = "data"
                  /\ SuccessRecord(p, frame[p].result.item)
                  /\ frame[p].result.item.AuditStreaming.kind = "ERROR"
                  /\ frame[p].result.item.OverallHealth.kind = "UNHEALTHY"
            /\ Failed(p, "put_item") =>
                  /\ frame[p].inner_err = [kind |-> "ClientError", arg |-> "put_item", sub |-> ""]
                  /\ frame[p].result.tag # "data"

\* Both services are active, the lookup failed: the record is returned, UNHEALTHY.
C10_Witness ==
    \E p \in Procs :
        /\ Done(p)
        /\ LogLookupFailure(p)
        /\ frame[p].result.tag = "data"
        /\ frame[p].result.item.CloudWatchAgentStatus = "active"
        /\ frame[p].result.item.AuditdStatus = "active"
        /\ frame[p].result.item.OverallHealth.kind = "UNHEALTHY"

\* ---------------------------------------------------------------- C11
\* The service whose probe ran last.
LastProbed(p) == services[Cardinality(DOMAIN frame[p].service_statuses)]

\* C11 as stated: each probe is classified by its exit status alone (0 is
\* active, anything else inactive), whatever the other probe gave; and a
\* probe that cannot be run is recorded as inactive and is not fatal: the
\* handler takes no failure path and goes on to write the success record.
C11_AsStated ==
    \A p \in Procs :
        /\ frame[p].exit_status # <<>> =>
              frame[p].service_statuses[LastProbed(p)] =
                  (IF frame[p].exit_status[1] = 0 THEN "active" ELSE "inactive")
        /\ Failed(p, "exec_command") =>
              /\ frame[p].inner_err = NoErr
              /\ ~Called(p, "put_item_failed")
              /\ Done(p) => Called(p, "put_item")

\* The first probe gave exit status 0, the second could not be run: the
\* handler wrote FAILED and returned SKIPPED, with no status recorded for auditd.
C11_Witness ==
    \E p \in Procs :
        /\ Done(p)
        /\ frame[p].service_statuses = ("amazon-cloudwatch-agent" :> "active")
        /\ Failed(p, "exec_command")
        /\ ~Called(p, "put_item")
        /\ FailedRecord(p, [kind |-> "SSHException", arg |-> "exec_command", sub |-> ""])
        /\ frame[p].result.tag = "SKIPPED"

\* ---------------------------------------------------------------- C12
\* The record writes of p: the positions of its put_item calls, and of those
\* that succeeded.
PutCalls(p) ==
    {i \in DOMAIN Calls(p) : Calls(p)[i].call \in {"put_item_skipped", "put_item", "put_item_failed"}}
Written(p) == {i \in PutCalls(p) : Calls(p)[i].outcome = "ok"}

\* The records stored under the key of p: (instance_id, its timestamp).
OwnRecords(p) ==
    {i \in table : i.InstanceId = InstanceId /\ i.Timestamp = frame[p].timestamp}

\* C12 as stated: every terminated invocation has written exactly one
\* record, stored under (instance_id, its own timestamp).
C12_AsStated ==
    \A p \in Procs :
        Done(p) =>
            /\ Cardinality(Written(p)) = 1
            /\ Cardinality(OwnRecords(p)) = 1

\* C12, amended: an invocation never writes twice with success: it makes at
\* most two put_item calls, the second only as the FAILED write that follows
\* a failed write of the success record.  An invocation that returns has
\* written exactly one record, stored under (instance_id, its timestamp); an
\* invocation that raises has written none.  The table holds one item per key.
C12_AtMostOneRecord ==
    /\ \A i, j \in table : (i.InstanceId = j.InstanceId /\ i.Timestamp = j.Timestamp) => i = j
    /\ \A p \in Procs :
          /\ Cardinality(Written(p)) <= 1
          /\ Cardinality(PutCalls(p)) <= 2
          /\ Cardinality(PutCalls(p)) = 2 =>
                /\ Failed(p, "put_item")
                /\ Called(p, "put_item_failed")
          /\ Written(p) # {} =>
                /\ frame[p].result.kind = "return"
                /\ Cardinality(OwnRecords(p)) = 1
                /\ \A i \in OwnRecords(p) :
                      i.OverallHealth.kind =
                          (CASE Succeeded(p, "put_item_skipped") -> "SKIPPED"
                             [] Succeeded(p, "put_item_failed") -> "FAILED"
                             [] OTHER -> frame[p].result.item.OverallHealth.kind)
          /\ Done(p) => (frame[p].result.kind = "return" <=> Cardinality(Written(p)) = 1)

\* The write of the success record failed and the FAILED write went through:
\* two calls, one record.
C12_Witness ==
    \E p \in Procs :
        /\ Done(p)
        /\ Failed(p, "put_item")
        /\ Succeeded(p, "put_item_failed")
        /\ Cardinality(OwnRecords(p)) = 1
        /\ \A i \in OwnRecords(p) : i.OverallHealth.kind = "FAILED"

\* ---------------------------------------------------------------- C13
InCleanup(p) == frame[p].pc \in {"cleanup_detach", "cleanup_delete"}
Running(p) == frame[p].pc \notin {"idle", "done"}

\* What C13 asks of one step of invocation p.
C13_Step(p) ==
    LET f == frame[p]
        g == frame'[p]
    IN \* once a temporary group id exists, every exit (return or raise) enters the cleanup
       /\ (Running(p) /\ ~InCleanup(p) /\ g.temp_sg_id # None /\ g.result.kind # "none") =>
             g.pc = "cleanup_detach"
       \* and the invocation ends through the cleanup only
       /\ (Running(p) /\ g.pc = "done" /\ f.temp_sg_id # None) => InCleanup(p)
       \* a step of the cleanup, failed or not, leaves the result as it was
       /\ (InCleanup(p) /\ g # f) =>
             /\ g.result = f.result
             /\ g.result.kind \in {"return", "raise"}
             /\ g.pc \in {"cleanup_delete", "done"}
             /\ g.calls[Len(g.calls)].call =
                   (IF f.pc = "cleanup_detach" THEN "detach" ELSE "delete_security_group")
             /\ g.calls[Len(g.calls)].outcome # "ok" => g.pc = "done"

\* C13: once a temporary group id exists the cleanup is entered on every
\* exit path, after a failed attach or a failed later step too; a detach or
\* delete that fails in the cleanup only ends the cleanup: the handler still
\* returns the value or raises the error it had before the cleanup, on the
\* first cleanup of a group and on the cleanup of a group reused after an
\* earlier cleanup.
C13_CleanupOnlyLogs == [][\A p \in Procs : C13_Step(p)]_vars

\* The group was left by an earlier invocation and reused; the attach
\* failed, then the detach of the cleanup failed: the handler raises the
\* error of the attach.
C13_Witness ==
    \E p \in Procs :
        /\ Done(p)
        /\ Succeeded(p, "describe_security_groups")
        /\ Failed(p, "attach")
        /\ Failed(p, "detach")
        /\ frame[p].result = Raise([kind |-> "ClientError", arg |-> "modify_instance_attribute", sub |-> ""])

\* ---------------------------------------------------------------- C14
\* The place of each call in the order PRECHECK, GRANT_ACCESS, RESOLVE_SECRET,
\* CONNECT, PROBE, VERIFY_STREAMING, record write, CLEANUP.
C14_Rank ==
    [get_function_configuration |-> 1, describe_instances |-> 2, put_item_skipped |-> 3,
     create_security_group |-> 3, describe_security_groups |-> 4,
     authorize_security_group_ingress |-> 5, attach |-> 6,
     get_secret_value |-> 7, connect |-> 8, exec_command |-> 9, close |-> 10,
     describe_log_streams |-> 11, put_item |-> 12, put_item_failed |-> 13,
     detach |-> 14, delete_security_group |-> 15]

\* The position of the last call of p that satisfies Test, 0 if there is none.
C14_Last(p, Test(_)) ==
    LET at == {i \in DOMAIN Calls(p) : Test(Calls(p)[i].call)}
    IN IF at = {} THEN 0 ELSE CHOOSE i \in at : \A j \in at : j <= i

C14_First(p, call) ==
    LET at == {i \in DOMAIN Calls(p) : Calls(p)[i].call = call}
    IN IF at = {} THEN 0 ELSE CHOOSE i \in at : \A j \in at : i <= j

C14_UsesSession(call) == call \in {"connect", "exec_command", "close"}
C14_WritesRecord(call) == call \in {"put_item_skipped", "put_item", "put_item_failed"}

\* C14: the calls of an invocation follow the order of the steps: a step is
\* never followed by an earlier one, and only the login and the probe repeat;
\* no connection is attempted before the attach (with the settle delay that
\* follows it) has succeeded; the cleanup, detach then delete, comes after
\* the last use of the session and after the record write; and an invocation
\* that ends after GRANT_ACCESS has run the cleanup.
C14_StepOrder ==
    \A p \in Procs :
        /\ \A i \in DOMAIN Calls(p) :
              i > 1 =>
                 /\ C14_Rank[Calls(p)[i - 1].call] <= C14_Rank[Calls(p)[i].call]
                 /\ C14_Rank[Calls(p)[i - 1].call] = C14_Rank[Calls(p)[i].call] =>
                       Calls(p)[i].call \in {"connect", "exec_command"}
        /\ Called(p, "connect") =>
              /\ Succeeded(p, "attach")
              /\ C14_First(p, "attach") < C14_First(p, "connect")
              /\ Succeeded(p, "get_secret_value")
        /\ Called(p, "exec_command") => Succeeded(p, "connect")
        /\ Called(p, "describe_log_streams") => Succeeded(p, "close")
        /\ Called(p, "detach") =>
              /\ C14_Last(p, C14_UsesSession) < C14_First(p, "detach")
              /\ C14_Last(p, C14_WritesRecord) < C14_First(p, "detach")
              /\ Succeeded(p, "attach") => C14_Last(p, C14_WritesRecord) > 0
        /\ Called(p, "delete_security_group") =>
              /\ Succeeded(p, "detach")
              /\ C14_First(p, "detach") < C14_First(p, "delete_security_group")
        /\ (Done(p) /\ ReachedGrant(p)) => Called(p, "detach")

\* A whole run: two logins, both probes, the log lookup, the record, then
\* detach and delete.
C14_Witness ==
    \E p \in Procs :
        /\ Done(p)
        /\ Len(ConnectCalls(p)) = 2
        /\ Succeeded(p, "close")
        /\ Succeeded(p, "put_item")
        /\ Succeeded(p, "delete_security_group")
        /\ Len(Calls(p)) = 15

\* ---------------------------------------------------------------- C15
\* The scenario: the target is running, the group is created, authorized and
\* attached, the secret resolves, ubuntu is refused and ec2-user gets in,
\* both probes exit 0 and the log stream is fresh.
C15_Scenario(p) ==
    /\ frame[p].current_state = "running"
    /\ Succeeded(p, "create_security_group")
    /\ Succeeded(p, "attach")
    /\ Succeeded(p, "get_secret_value")
    /\ Len(ConnectCalls(p)) = 2
    /\ ConnectCalls(p)[1].outcome # "ok"
    /\ ConnectCalls(p)[2].outcome = "ok"
    /\ frame[p].service_statuses = [s \in Range(services) |-> ServiceStatus(0)]
    /\ Succeeded(p, "describe_log_streams")
    /\ frame[p].audit_streaming.kind = "YES"

\* The record of the scenario.
C15_Record(p) ==
    [InstanceId |-> "i-1", Timestamp |-> frame[p].timestamp, InstanceName |-> "web",
     CloudWatchAgentStatus |-> "active", AuditdStatus |-> "active",
     AuditStreaming |-> [kind |-> "YES", hh |-> 0, mm |-> 0, prefix |-> <<>>],
     OverallHealth |-> [kind |-> "HEALTHY", state |-> "", reason |-> NoErr]]

\* The temporary group of p neither exists nor is attached.
C15_GroupAbsent(p) ==
    /\ frame[p].temp_sg_id \notin DOMAIN security_groups
    /\ frame[p].temp_sg_id \notin Range(instance_sgs)

\* C15 as stated: in the scenario the terminated handler has written the
\* HEALTHY record, returned it, and left no temporary group.
C15_AsStated ==
    \A p \in Procs :
        (Done(p) /\ C15_Scenario(p)) =>
            /\ C15_Record(p) \in table
            /\ frame[p].result = Return("data", NoErr, C15_Record(p))
            /\ C15_GroupAbsent(p)

\* C15, amended: in the scenario the handler calls put_item with the HEALTHY
\* record; when that write succeeds the record is in the table and is what
\* the handler returns; when the detach and the delete of the cleanup succeed
\* the temporary group is detached and deleted and the instance has its
\* original groups.
C15_EndToEnd ==
    \A p \in Procs :
        C15_Scenario(p) =>
            /\ frame[p].pc \in {"put_item", "put_item_failed", "cleanup_detach", "cleanup_delete", "done"}
            /\ frame[p].pc # "put_item" => Called(p, "put_item")
            /\ Succeeded(p, "put_item") =>
                  /\ C15_Record(p) \in table
                  /\ frame[p].result = Return("data", NoErr, C15_Record(p))
            /\ Done(p) => Called(p, "detach")
            /\ (Done(p) /\ Succeeded(p, "detach") /\ Succeeded(p, "delete_security_group")) =>
                  /\ C15_GroupAbsent(p)
                  /\ instance_sgs = frame[p].original_sg_ids

\* The scenario went through: the record is stored and returned, no
\* temporary group is left and the instance has its groups of before.
C15_Witness ==
    \E p \in Procs :
        /\ Done(p)
        /\ C15_Scenario(p)
        /\ C15_Record(p) \in table
        /\ frame[p].result.item = C15_Record(p)
        /\ DOMAIN security_groups = {}
        /\ instance_sgs = InitialSgs

\* ---------------------------------------------------------------- C16
\* C16 as stated: a temporary group is owned by one invocation: no two
\* invocations that overlap hold the same group id, so neither attaches,
\* uses, detaches or deletes the group of the other.
C16_AsStated ==
    \A p, q \in Procs :
        (p # q /\ Running(p) /\ Running(q) /\ frame[p].temp_sg_id # None) =>
            frame[q].temp_sg_id # frame[p].temp_sg_id

\* One invocation created the group, the other resolved the same group
\* after InvalidGroup.Duplicate and is running its probes on the session; the
\* first has ended, its cleanup having detached and deleted the group.
C16_Witness ==
    \E p, q \in Procs :
        /\ p # q
        /\ Succeeded(p, "create_security_group")
        /\ Succeeded(q, "describe_security_groups")
        /\ frame[q].temp_sg_id = frame[p].temp_sg_id
        /\ Done(p) /\ Succeeded(p, "delete_security_group")
        /\ frame[q].pc = "exec_command"
        /\ frame[q].temp_sg_id \notin DOMAIN security_groups
        /\ frame[q].temp_sg_id \notin Range(instance_sgs)

\* ---------------------------------------------------------------- C17
\* The poll in hand: its number (check_count + 1), the limit of the loop,
\* the status polled, and whether the loop is out of polls with the refresh
\* still going.
C17_PollNumber == monitor.check_count + 1
C17_MaxChecks == IF monitor.max_checks = <<>> THEN 45 ELSE monitor.max_checks[1]
C17_Polled == monitor.instance_refresh_status
C17_OutOfPolls == C17_Polled \in {"Pending", "InProgress"} /\ C17_PollNumber >= C17_MaxChecks

\* The monitor item, once written.
C17_Item == monitor_table[1]

\* C17 as stated: a poll that has ended, having polled Pending or InProgress
\* with check_count + 1 at max_checks, has left TIMEOUT_FAILED in the monitor
\* item; TIMEOUT_FAILED is written by no earlier poll and by no poll that
\* observed a final status; a status returned is the status polled.
C17_AsStated ==
    /\ (monitor.pc \in {"returned", "raised"} /\ C17_OutOfPolls) =>
          /\ monitor_table # <<>>
          /\ C17_Item.current_status = "TIMEOUT_FAILED"
    /\ (monitor_table # <<>> /\ C17_Item.current_status = "TIMEOUT_FAILED") =>
          C17_Item.iteration_count >= C17_MaxChecks
    /\ monitor.result.kind = "return" => monitor.result.status = C17_Polled

\* C17, amended: TIMEOUT_FAILED is written only by a poll whose number
\* (check_count + 1) has reached max_checks (45 when the event gives none).
\* A poll that returns returns the status it polled, one of the five, and
\* leaves the item with the poll's number and with TIMEOUT_FAILED when it
\* polled Pending or InProgress at or past max_checks, with the polled status
\* otherwise (so never TIMEOUT_FAILED for Successful, Failed or Cancelled).
\* A poll in which a call fails raises instead of returning, and may leave
\* the item at CHECK_ERROR or at the polled status.
C17_Timeout ==
    /\ (monitor_table # <<>> /\ C17_Item.current_status = "TIMEOUT_FAILED") =>
          /\ C17_Item.iteration_count >= C17_MaxChecks
          /\ C17_Item.last_message.n = C17_MaxChecks
    /\ monitor.pc = "returned" =>
          /\ monitor.result = [kind |-> "return", status |-> C17_Polled]
          /\ C17_Polled \in {"Pending", "InProgress", "Successful", "Failed", "Cancelled"}
          /\ monitor_table # <<>>
          /\ C17_Item.iteration_count = C17_PollNumber
          /\ C17_Item.current_status =
                (IF C17_OutOfPolls THEN "TIMEOUT_FAILED" ELSE C17_Polled)
    /\ monitor.pc = "raised" =>
          /\ monitor.result.kind = "raise"
          /\ monitor_table # <<>> =>
                C17_Item.current_status \in {"CHECK_ERROR", "TIMEOUT_FAILED", "Pending", "InProgress",
                                             "Successful", "Failed", "Cancelled"}
    /\ monitor.result.kind = "return" => monitor.pc = "returned"

\* The event gives no max_checks: the 45th poll (check_count 44) finds the
\* refresh InProgress, forces TIMEOUT_FAILED and returns InProgress.
C17_Witness ==
    /\ monitor.pc = "returned"
    /\ monitor.max_checks = <<>>
    /\ monitor.check_count = 44
    /\ monitor.result.status = "InProgress"
    /\ monitor_table # <<>>
    /\ C17_Item.current_status = "TIMEOUT_FAILED"
    /\ C17_Item.iteration_count = 45

\* ---------------------------------------------------------------- C18
\* The batch size the handler is to use, for each BATCH_SIZE setting.
C18_B ==
    LET env == splitter.env
    IN  CASE env = <<>>                  -> 10
          [] env = << <<"3">> >>          -> 3
          [] env = << <<"1">> >>          -> 1
          [] env = << <<" ", "4", " ">> >> -> 4
          [] env = << <<"+", "2">> >>     -> 2
          [] OTHER                       -> 10

\* The flag values that read 'True'.
C18_True ==
    { BoolValue(TRUE), StrValue(<<"T", "r", "u", "e">>),
      StrValue(<<" ", "T", "r", "u", "e", " ">>) }

\* The qualifying services of the deployment file, in configuration order.
C18_Names ==
    LET svcs == SelectSeq(splitter.document.services,
                          LAMBDA svc : svc.environments.dict
                                       /\ svc.environments.value \in C18_True)
    IN  [i \in 1..Len(svcs) |-> AsgName(svcs[i].service_name)]

RECURSIVE C18_Concat(_)
C18_Concat(batches) ==
    IF batches = <<>> THEN <<>> ELSE Head(batches) \o C18_Concat(Tail(batches))

C18_Ceil(n, b) == (n + b - 1) \div b

\* The handler has read and parsed a deployment file that is a mapping.
C18_Split ==
    /\ splitter.pc = "done"
    /\ splitter.document.kind \in {"mapping", "no_key"}
    /\ splitter.result.error_detail = <<>>

\* C18: for N qualifying services and batch size B (10 when BATCH_SIZE is
\* unset, not an integer or not positive) the handler returns ceil(N/B)
\* batches, each non-empty and of at most B names, all but the last of
\* exactly B, whose concatenation is the qualifying names in configuration
\* order, and total_asgs = N.
C18_Batches ==
    C18_Split =>
        LET N       == Len(C18_Names)
            B       == C18_B
            batches == splitter.result.asg_batches
        IN  /\ splitter.result.kind = "return"
            /\ Len(batches) = C18_Ceil(N, B)
            /\ \A k \in 1..Len(batches) :
                 /\ batches[k] # <<>>
                 /\ Len(batches[k]) <= B
                 /\ k < Len(batches) => Len(batches[k]) = B
            /\ C18_Concat(batches) = C18_Names
            /\ splitter.result.total_asgs = N

\* Eleven qualifying services split with the default size: a full batch of
\* ten followed by a partial batch of one.
C18_Witness ==
    /\ C18_Split
    /\ splitter.env = <<>>
    /\ Len(C18_Names) = 11
    /\ Len(splitter.result.asg_batches) = 2
    /\ Len(splitter.result.asg_batches[2]) = 1

\* ---------------------------------------------------------------- C19
\* The domain error each backend code of get_secret_value is to map to.
C19_Domain(err_code) ==
    CASE err_code = "ResourceNotFoundException" -> "Secret missing in Secrets Manager"
      [] err_code = "AccessDeniedException"     -> "Lambda IAM role denied access to secret"
      [] OTHER                                  -> "SecretsManager Error"

\* The backend code get_secret_value failed with in invocation p, if it did.
C19_Codes(p) ==
    {Calls(p)[i].outcome : i \in {j \in DOMAIN Calls(p) :
         Calls(p)[j].call = "get_secret_value" /\ Calls(p)[j].outcome \in SecretErrorCodes}}

\* C19 as stated: a backend error of the credential read is raised as the one
\* domain error of its code (not found, access denied, any other code), and
\* each of the three carries the secret identifier.
C19_AsStated ==
    \A p \in Procs : \A err_code \in C19_Codes(p) :
        /\ frame[p].inner_err.kind = C19_Domain(err_code)
        /\ frame[p].inner_err.arg = frame[p].key_pair_name

\* The read failed with a code other than not-found and access-denied: the
\* FAILED record names the code and not the secret.
C19_Witness ==
    \E p \in Procs :
        /\ Done(p)
        /\ C19_Codes(p) = {"InternalServiceError"}
        /\ frame[p].key_pair_name # None
        /\ frame[p].inner_err.arg # frame[p].key_pair_name
        /\ FailedRecord(p, Err("SecretsManager Error", "InternalServiceError", ""))

\* ---------------------------------------------------------------- C20
\* The entries the handler is to return: one for each running instance, in
\* listing order, named 'Unknown' when the instance has no Name tag.
C20_Entries ==
    LET running == SelectSeq([i \in 1..Len(discovery.instances) |->
                                 [n |-> i, ins |-> discovery.instances[i]]],
                             LAMBDA e : e.ins.state = "running")
    IN  [k \in 1..Len(running) |->
            [instance_id   |-> running[k].n,
             instance_ip   |-> running[k].n,
             instance_name |-> IF running[k].ins.name = <<>> THEN <<"Unknown">>
                               ELSE running[k].ins.name,
             key_pair_name |-> running[k].ins.key,
             state         |-> "running"]]

\* C20 as stated: the discovery handler returns one entry {instance_id,
\* instance_ip, instance_name, key_pair_name, state} for every running
\* instance and none for any other instance, with instance_name 'Unknown'
\* for an instance without a Name tag.
C20_AsStated ==
    discovery.pc = "done" =>
        /\ discovery.result.kind = "return"
        /\ discovery.result.value = C20_Entries

\* A running instance without a Name tag and a stopped one: the handler
\* raised NameError and returned no list.
C20_Witness ==
    /\ discovery.pc = "done"
    /\ Len(discovery.instances) = 2
    /\ discovery.instances[1].state = "running"
    /\ discovery.instances[1].name = <<>>
    /\ discovery.instances[2].state = "stopped"
    /\ Len(C20_Entries) = 1
    /\ discovery.result = [kind |-> "raise", error |-> "NameError", value |-> <<>>]

\* ---------------------------------------------------------------- C21
\* The grant of p is attached: p's attach call succeeded and its release
\* (the detach of the cleanup) has not succeeded.
C21_Attached(p) == Succeeded(p, "attach") /\ ~Succeeded(p, "detach")

\* p has released its grant.
C21_Released(p) == Succeeded(p, "attach") /\ Succeeded(p, "detach")

\* C21: from attach until release the instance's groups are the snapshot
\* followed by the temporary group, so no original group is removed or
\* reordered; after release they are the snapshot again, every original
\* group present in its original order and the temporary group gone.
C21_Additive ==
    \A p \in Procs :
        /\ C21_Attached(p) =>
              /\ instance_sgs = Append(frame[p].original_sg_ids, frame[p].temp_sg_id)
              /\ SubSeq(instance_sgs, 1, Len(InitialSgs)) = InitialSgs
        /\ C21_Released(p) =>
              /\ instance_sgs = frame[p].original_sg_ids
              /\ instance_sgs = InitialSgs
              /\ frame[p].temp_sg_id \notin Range(instance_sgs)

\* An invocation that attached its group to the two original groups, ran to
\* its end and released it.
C21_Witness ==
    \E p \in Procs :
        /\ Done(p)
        /\ C21_Released(p)
        /\ frame[p].original_sg_ids = InitialSgs
        /\ instance_sgs = InitialSgs

\* The grant is attached and the session is open: the instance has its two
\* original groups and the temporary group after them.
C21_WitnessAttached ==
    \E p \in Procs :
        /\ C21_Attached(p)
        /\ frame[p].session = "open"
        /\ instance_sgs = <<"sg-a", "sg-b", frame[p].temp_sg_id>>

\* ---------------------------------------------------------------- C22
\* C22 as stated: a session opened by a successful connect is closed before
\* the invocation ends, on every path after the connect, and no command is
\* executed on a session after its close.
C22_AsStated ==
    \A p \in Procs :
        /\ Done(p) /\ Succeeded(p, "connect") => frame[p].session = "closed"
        /\ \A i, j \in DOMAIN Calls(p) :
              Calls(p)[i].call = "close" /\ Calls(p)[j].call = "exec_command" => j < i

\* The login succeeded, the first probe ran and the second could not be
\* run: the invocation ended, cleanup included, with the session never closed.
C22_Witness ==
    \E p \in Procs :
        /\ Done(p)
        /\ Succeeded(p, "connect")
        /\ Succeeded(p, "exec_command")
        /\ Failed(p, "exec_command")
        /\ ~Called(p, "close")
        /\ Called(p, "detach")
        /\ frame[p].session = "open"

\* ---------------------------------------------------------------- C23
\* The target group has a registered target and all its targets are healthy.
C23_GroupReady(targets) ==
    targets # <<>> /\ \A i \in DOMAIN targets : targets[i] = "healthy"

\* The ASG may be refreshed: its DesiredCapacity is not 0 and every target
\* group is ready (none at all included).
C23_Eligible ==
    /\ starter.desired # 0
    /\ \A k \in DOMAIN starter.target_groups : C23_GroupReady(starter.target_groups[k])

\* The target groups before the first one that is not ready, that one included.
C23_UpToFirstBlock ==
    {k \in DOMAIN starter.target_groups :
        \A j \in 1..(k - 1) : C23_GroupReady(starter.target_groups[j])}

\* The status of the record of an ASG that may not be refreshed.
C23_SkipStatus == IF starter.desired = 0 THEN "SKIPPED_CAPACITY_ZERO" ELSE "SKIPPED_UNHEALTHY"

\* The parts of C23 that hold whatever the backends do: a refresh is started
\* only for an eligible ASG, the health check examines no group after the
\* first one that blocks (none when DesiredCapacity is 0), and skip = false
\* with a refresh_id is returned only after a refresh was started.
C23_Always ==
    /\ starter.started => C23_Eligible
    /\ starter.examined > 0 => starter.desired # 0 /\ starter.examined \in C23_UpToFirstBlock
    /\ starter.result.kind = "return" /\ ~starter.result.skip =>
          /\ starter.started
          /\ starter.result.refresh_id = "refresh-1"
          /\ monitor_table = <<MonitorItem("REFRESH_STARTED", "refresh-1")>>

\* C23 as stated: the refresh is started only for an ASG whose
\* DesiredCapacity is not 0 and whose target groups all have targets, all
\* healthy; for any other ASG the handler starts no refresh, writes a
\* SKIPPED_CAPACITY_ZERO or SKIPPED_UNHEALTHY record and returns skip = true;
\* the health check stops at the first group that blocks; skip = false with
\* a refresh_id is returned only after a refresh was started.
C23_AsStated ==
    starter.pc # "idle" =>
        /\ C23_Always
        /\ starter.pc = "done" /\ ~C23_Eligible =>
              /\ monitor_table = <<MonitorItem(C23_SkipStatus, "N/A")>>
              /\ starter.result = StartResult("return", TRUE, "")

\* C23, amended: as stated, with the record and the result of an ASG that
\* may not be refreshed depending on the calls: when they all succeed the
\* record is the SKIPPED one and skip = true is returned; when one fails the
\* handler raises, and the record is CRITICAL_ERROR or was not written.
C23_HealthGate ==
    starter.pc # "idle" =>
        /\ C23_Always
        /\ starter.pc = "done" /\ ~C23_Eligible =>
              IF starter.failed = ""
              THEN /\ monitor_table = <<MonitorItem(C23_SkipStatus, "N/A")>>
                   /\ starter.result = StartResult("return", TRUE, "")
              ELSE /\ monitor_table \in {<<>>, <<MonitorItem("CRITICAL_ERROR", "N/A")>>}
                   /\ starter.result = StartResult("raise", FALSE, "")
        /\ starter.pc = "done" /\ C23_Eligible /\ starter.failed = "" =>
              starter.result = StartResult("return", FALSE, "refresh-1")

\* Two target groups, the first with an unhealthy target: the handler looked
\* at the first group only, started nothing and returned skip = true.
C23_Witness ==
    /\ starter.pc = "done"
    /\ starter.desired = 2
    /\ starter.target_groups = << <<"healthy", "unhealthy">>, <<"healthy">> >>
    /\ starter.examined = 1
    /\ ~starter.started
    /\ monitor_table = <<MonitorItem("SKIPPED_UNHEALTHY", "N/A")>>
    /\ starter.result = StartResult("return", TRUE, "")

\* ---------------------------------------------------------------- C24
\* Invocation p found the group Temp-SSH-<instance_id> left by an earlier
\* invocation still attached to the instance, and reused it: the group is in
\* p's snapshot, its creation was a Duplicate and the lookup returned it.
C24_ReusedLeftover(p) ==
    /\ frame[p].temp_sg_id # None
    /\ frame[p].temp_sg_id \in Range(frame[p].original_sg_ids)
    /\ \E i \in DOMAIN Calls(p) : /\ Calls(p)[i].call = "create_security_group"
                                  /\ Calls(p)[i].outcome = "InvalidGroup.Duplicate"
    /\ Succeeded(p, "describe_security_groups")

\* Every backend call of p succeeded, but for the creation that found the
\* group and the calls EC2 cannot accept on such a group: authorizing the
\* rule the group already holds, and deleting the group while attached.
C24_CallsSucceed(p) ==
    \A i \in DOMAIN Calls(p) :
        LET c == Calls(p)[i] IN
        \/ c.outcome = "ok"
        \/ c.call = "create_security_group" /\ c.outcome = "InvalidGroup.Duplicate"
        \/ /\ c.call = "authorize_security_group_ingress"
           /\ frame[p].temp_sg_id \in DOMAIN security_groups
           /\ IpPermissions(frame[p].lambda_sg_id) \in security_groups[frame[p].temp_sg_id]
        \/ /\ c.call = "delete_security_group"
           /\ frame[p].temp_sg_id \in Range(instance_sgs)

\* C24 as stated: a later invocation that reuses a group an earlier cleanup
\* left existing and attached, and whose backend calls succeed, ends with
\* the group out of the instance's membership and deleted.
C24_AsStated ==
    \A p \in Procs :
        Done(p) /\ C24_ReusedLeftover(p) /\ C24_CallsSucceed(p) =>
            /\ frame[p].temp_sg_id \notin Range(instance_sgs)
            /\ frame[p].temp_sg_id \notin DOMAIN security_groups

\* The second invocation reused the attached leftover, its restore call
\* succeeded, and it ended with the group still attached and existing.
C24_Witness ==
    \E p \in Procs :
        /\ Done(p)
        /\ invocations = 2
        /\ C24_ReusedLeftover(p)
        /\ C24_CallsSucceed(p)
        /\ Succeeded(p, "detach")
        /\ instance_sgs = Append(InitialSgs, frame[p].temp_sg_id)
        /\ frame[p].temp_sg_id \in DOMAIN security_groups

\* ---------------------------------------------------------------- C25
\* C25 as stated: two invocations for the same instance_id overlap in some
\* interleaving, every backend call succeeding whenever its precondition
\* holds; once both have ended, the group Temp-SSH-<instance_id> is not
\* attached to the instance and does not exist, and the instance's groups
\* are those it had before either started.
C25_AsStated ==
    (\A p \in Procs : Done(p)) =>
        /\ DOMAIN security_groups = {}
        /\ \A p \in Procs : frame[p].temp_sg_id \notin Range(instance_sgs)
        /\ instance_sgs = InitialSgs

\* One invocation created and attached the group; the other took its
\* snapshot while the group was attached and reused the group.  Both have
\* ended, both restore calls having succeeded, and the group is still
\* attached to the instance and still exists.
C25_Witness ==
    \E p, q \in Procs :
        /\ p # q
        /\ Done(p) /\ Done(q)
        /\ Succeeded(p, "create_security_group")
        /\ Succeeded(p, "detach")
        /\ frame[p].original_sg_ids = InitialSgs
        /\ frame[q].temp_sg_id = frame[p].temp_sg_id
        /\ frame[q].original_sg_ids = Append(InitialSgs, frame[p].temp_sg_id)
        /\ Succeeded(q, "detach")
        /\ instance_sgs = Append(InitialSgs, frame[p].temp_sg_id)
        /\ frame[p].temp_sg_id \in DOMAIN security_groups

====
